---- MODULE Spec2Model ----
(***************************************************************************)
(* Sentinel-AI routing core: BudgetController, CacheManager,               *)
(* ProviderRegistry, PromptOptimizer and IntelligentRouter.                *)
(*                                                                         *)
(* Amounts of money are integers in units of $0.001.  Time is in seconds.  *)
(* A warning_threshold is held as a percentage (0.8 is 80).  A prompt is a *)
(* sequence of words joined by single spaces; a cache key (the MD5 of the  *)
(* optimized text) is the optimized text itself.                           *)
(***************************************************************************)
EXTENDS Integers, Sequences, FiniteSets, TLC

VARIABLES budget_configs, budget_usage, l1_cache, l2_client, l2_data,
          circuit_breakers, metrics, now, last

vars == <<budget_configs, budget_usage, l1_cache, l2_client, l2_data,
          circuit_breakers, metrics, now, last>>

-----------------------------------------------------------------------------
(* Bounds of the exploration *)

MaxWords == 1
MaxEstimate == 3
MaxCost == 1
MaxRequests == 1
MaxAdvances == 2
MaxBurst == 2
MaxTicks == 2
MaxFailures == 5
MaxBreakerTicks == 5
MaxAttempts == 1
MaxOptimized == 4
MemoryMaxSize == 2

-----------------------------------------------------------------------------
(* Small helpers *)

None == "None"

Max(a, b) == IF a >= b THEN a ELSE b

\* d[k] = v on a dict d
Put(d, k, v) == [x \in DOMAIN d \cup {k} |-> IF x = k THEN v ELSE d[x]]

RECURSIVE SumLen(_)
SumLen(ws) == IF ws = <<>> THEN 0 ELSE Len(Head(ws)) + SumLen(Tail(ws))

-----------------------------------------------------------------------------
(* Requests *)

Words == {"please", "sum", "hello"}

Prompts == UNION {[1..n -> Words] : n \in 0..MaxWords}

Users == {"u1"}
Teams == {"t1"}
Companies == {"c1"}

AIRequest == [prompt : Prompts, user_id : Users,
              team_id : Teams \cup {None}, company_id : Companies \cup {None}]

\* len(request.prompt): the words and the single spaces between them
PromptLen(ws) == IF ws = <<>> THEN 0 ELSE SumLen(ws) + (Len(ws) - 1)

-----------------------------------------------------------------------------
(* BudgetPeriodCalculator, BudgetController *)

BudgetLevels == <<"user", "team", "company">>

\* a monthly period of 30 days, in seconds
PeriodSeconds == 2592000

\* get_period_dates: the start of the window that holds time t
get_period_start_mutant(t) == ((t - 1) \div PeriodSeconds) * PeriodSeconds

get_period_start(t) == (t \div PeriodSeconds) * PeriodSeconds

\* the three defaults of _initialize_default_budgets, kept under the keys
\* "default_company", "default_team" and "default_user", which no
\* "<level>_<entity_id>" key of a scope equals: only
\* _get_default_config_for_level reads them.  Money is in units of $0.001,
\* thresholds are percentages.
DefaultUserLimit == 100000
DefaultTeamLimit == 1000000
DefaultCompanyLimit == 10000000
DefaultWarningThreshold == 80

\* _get_default_config_for_level
_get_default_config_for_level(level) ==
    IF level = "company"
    THEN [limit_usd |-> DefaultCompanyLimit, warning_threshold |-> DefaultWarningThreshold,
          rollover |-> FALSE]
    ELSE IF level = "team"
    THEN [limit_usd |-> DefaultTeamLimit, warning_threshold |-> DefaultWarningThreshold,
          rollover |-> FALSE]
    ELSE [limit_usd |-> DefaultUserLimit, warning_threshold |-> DefaultWarningThreshold,
          rollover |-> FALSE]

\* the keys "<level>_<entity_id>" of budget_configs and budget_usage
BudgetKeys == ({"user"} \X Users) \cup ({"team"} \X Teams) \cup ({"company"} \X Companies)

\* _get_entity_hierarchy: user always, team and company when given
_get_entity_hierarchy(request) ==
    <<<<"user", request.user_id>>>>
    \o (IF request.team_id # None THEN <<<<"team", request.team_id>>>> ELSE <<>>)
    \o (IF request.company_id # None THEN <<<<"company", request.company_id>>>> ELSE <<>>)

\* get_budget_config, falling back on the default of the level
ConfigFor(configs, key) ==
    IF key \in DOMAIN configs THEN configs[key] ELSE _get_default_config_for_level(key[1])

\* _reset_budget_usage
_reset_budget_usage(config, period_start) ==
    [used_usd |-> 0, remaining_usd |-> config.limit_usd,
     request_count |-> 0, period_start |-> period_start]

\* _get_budget_usage: the usage table after the lookup of key at time t
_get_budget_usage(usage, config, key, t) ==
    IF key \in DOMAIN usage
    THEN IF usage[key].period_start # get_period_start(t)
         THEN Put(usage, key, _reset_budget_usage(config, get_period_start(t)))
         ELSE usage
    ELSE Put(usage, key, _reset_budget_usage(config, get_period_start(t)))

\* the field constraints of BudgetAuthorization (ge=0, gt=0)
BudgetAuthorizationValid(a) ==
    /\ a.current_usage >= 0
    /\ a.budget_limit > 0
    /\ a.remaining_budget >= 0
    /\ a.estimated_cost >= 0

\* BudgetAuthorization(...): the object, or the ValidationError of pydantic
BudgetAuthorization(a) ==
    IF BudgetAuthorizationValid(a)
    THEN [a EXCEPT !.raised = FALSE]
    ELSE [a EXCEPT !.raised = TRUE]

would_exceed_mutant(used, estimated_cost, limit) == used + estimated_cost >= limit

\* line 155: would_exceed = usage.used_usd + estimated_cost > config.limit_usd
would_exceed(used, estimated_cost, limit) == used + estimated_cost > limit

warning_reached_mutant(used, estimated_cost, config) ==
    (used + estimated_cost) * 100 > config.warning_threshold * config.limit_usd

\* lines 174-175: usage_percentage >= config.warning_threshold
warning_reached(used, estimated_cost, config) ==
    (used + estimated_cost) * 100 >= config.warning_threshold * config.limit_usd

DeniedRemainingMutant(u, estimated_cost) == Max(0, u.remaining_usd - estimated_cost)

\* line 167: remaining_budget=usage.remaining_usd
DeniedRemaining(u, estimated_cost) == u.remaining_usd

\* the loop of check_authorization from scope i on; usage is the table as the
\* earlier scopes left it.  The result carries the table the call leaves.
RECURSIVE CheckLoop(_, _, _, _, _, _)
CheckLoop(configs, usage, hierarchy, i, estimated_cost, t) ==
    IF i > Len(hierarchy)
    THEN [auth |-> BudgetAuthorization(
                     [raised |-> FALSE, approved |-> TRUE, status |-> "approved",
                      level |-> hierarchy[Len(hierarchy)][1],
                      entity_id |-> hierarchy[Len(hierarchy)][2],
                      current_usage |-> 0, budget_limit |-> 0, remaining_budget |-> 0,
                      estimated_cost |-> estimated_cost, would_exceed |-> FALSE]),
          usage |-> usage, evaluated |-> Len(hierarchy)]
    ELSE LET key == hierarchy[i]
             config == ConfigFor(configs, key)
             usage1 == _get_budget_usage(usage, config, key, t)
             u == usage1[key]
         IN IF would_exceed(u.used_usd, estimated_cost, config.limit_usd)
            THEN [auth |-> BudgetAuthorization(
                     [raised |-> FALSE, approved |-> FALSE, status |-> "exceeded",
                      level |-> key[1], entity_id |-> key[2],
                      current_usage |-> u.used_usd, budget_limit |-> config.limit_usd,
                      remaining_budget |-> DeniedRemaining(u, estimated_cost),
                      estimated_cost |-> estimated_cost, would_exceed |-> TRUE]),
                  usage |-> usage1, evaluated |-> i]
            ELSE IF warning_reached(u.used_usd, estimated_cost, config)
            THEN [auth |-> BudgetAuthorization(
                     [raised |-> FALSE, approved |-> TRUE, status |-> "warning",
                      level |-> key[1], entity_id |-> key[2],
                      current_usage |-> u.used_usd, budget_limit |-> config.limit_usd,
                      remaining_budget |-> config.limit_usd - (u.used_usd + estimated_cost),
                      estimated_cost |-> estimated_cost, would_exceed |-> FALSE]),
                  usage |-> usage1, evaluated |-> i]
            ELSE CheckLoop(configs, usage1, hierarchy, i + 1, estimated_cost, t)

\* check_authorization(request, estimated_cost)
check_authorization(configs, usage, request, estimated_cost, t) ==
    CheckLoop(configs, usage, _get_entity_hierarchy(request), 1, estimated_cost, t)

\* the body of the loop of record_usage for one scope
RecordOne_mutant(configs, usage, key, actual_cost, t) ==
    LET config == ConfigFor(configs, key)
        usage1 == _get_budget_usage(usage, config, key, t)
        u == usage1[key]
    IN [usage1 EXCEPT ![key] =
          [u EXCEPT !.used_usd = actual_cost,
                    !.remaining_usd = Max(0, config.limit_usd - actual_cost),
                    !.request_count = 1]]

RecordOne(configs, usage, key, actual_cost, t) ==
    LET config == ConfigFor(configs, key)
        usage1 == _get_budget_usage(usage, config, key, t)
        u == usage1[key]
    IN [usage1 EXCEPT ![key] =
          [u EXCEPT !.used_usd = u.used_usd + actual_cost,
                    !.remaining_usd = Max(0, config.limit_usd - (u.used_usd + actual_cost)),
                    !.request_count = u.request_count + 1]]

RECURSIVE RecordLoop(_, _, _, _, _, _)
RecordLoop(configs, usage, hierarchy, i, actual_cost, t) ==
    IF i > Len(hierarchy) THEN usage
    ELSE RecordLoop(configs, RecordOne(configs, usage, hierarchy[i], actual_cost, t),
                    hierarchy, i + 1, actual_cost, t)

\* record_usage(request, actual_cost): the usage table it leaves
record_usage(configs, usage, request, actual_cost, t) ==
    RecordLoop(configs, usage, _get_entity_hierarchy(request), 1, actual_cost, t)

\* get_budget_summary(level, entity_id): the usage table its lookup leaves
get_budget_summary(configs, usage, key, t) ==
    _get_budget_usage(usage, ConfigFor(configs, key), key, t)

-----------------------------------------------------------------------------
(* PromptOptimizer.  A text is the words joined by single spaces, followed  *)
(* by a full stop when dot is TRUE.                                         *)

\* the one-word entries of redundant_phrases
RedundantWords == {"please", "kindly"}

TextLen(text) == PromptLen(text.words) + (IF text.dot THEN 1 ELSE 0)

\* _estimate_tokens: len(text) // 4
_estimate_tokens(text) == TextLen(text) \div 4

RECURSIVE DropRedundant(_)
DropRedundant(ws) ==
    IF ws = <<>> THEN <<>>
    ELSE IF Head(ws) \in RedundantWords THEN DropRedundant(Tail(ws))
    ELSE <<Head(ws)>> \o DropRedundant(Tail(ws))

\* _remove_redundancy: the phrases go, the whitespace left behind is
\* collapsed and stripped
_remove_redundancy(text) == [words |-> DropRedundant(text.words), dot |-> text.dot]

\* _compress_instructions: the sentences joined by ". " and a final "."
_compress_instructions(text) == [words |-> text.words, dot |-> TRUE]

\* _partial_optimize: _remove_redundancy then _optimize_formatting
_partial_optimize(text) == _remove_redundancy(text)

\* _ensure_quality, for an original of at least one token
_ensure_quality(optimized, original) ==
    IF (_estimate_tokens(original) - _estimate_tokens(optimized)) * 10
         > 7 * _estimate_tokens(original)
    THEN _partial_optimize(original)
    ELSE optimized

\* optimise on the text original: ZeroDivisionError when it has no token
\* (lines 190, 64), else the optimized text
optimise_text(original) ==
    IF _estimate_tokens(original) = 0
    THEN [raised |-> TRUE, exception |-> "ZeroDivisionError", text |-> original]
    ELSE [raised |-> FALSE, exception |-> "",
          text |-> _ensure_quality(_compress_instructions(_remove_redundancy(original)),
                                   original)]

\* optimise(prompt), the prompt being words without a full stop
optimise(prompt) == optimise_text([words |-> prompt, dot |-> FALSE])

\* optimize_request: optimise, then get_optimization_stats (line 216 divides
\* by the same token count)
optimize_request(request) == optimise(request.prompt)

OptimizedTexts == {optimise(p).text : p \in {q \in Prompts : ~optimise(q).raised}}

-----------------------------------------------------------------------------
(* ComplexityAnalyzer and the cost estimate *)

\* overall_score * 100000: of the seven factors only LENGTH (weight 0.2,
\* word_count / 1000) is above zero for the words of the model
overall_score(prompt) == 20 * (IF Len(prompt) > 1000 THEN 1000 ELSE Len(prompt))

\* _determine_complexity_level
_determine_complexity_level(score) ==
    IF score <= 25000 THEN "simple"
    ELSE IF score <= 50000 THEN "moderate"
    ELSE IF score <= 75000 THEN "complex"
    ELSE "very_complex"

MinimumCost == 1

\* estimate_request_cost at the default temperature 0.2 and no preferred
\* provider: 0.002 * tokens/1000 * (1 + 2*score) * 1.0 * 1.1, at least $0.001
estimate_request_cost(request) ==
    LET tokens == PromptLen(request.prompt) \div 4
        raw == 22 * tokens * (100000 + 2 * overall_score(request.prompt))
    IN IF raw > 1000000000 THEN raw \div 1000000000 ELSE MinimumCost

-----------------------------------------------------------------------------
(* ProviderRegistry, CircuitBreaker *)

Providers == {"anthropic", "groq", "openai"}

ProviderName(p) ==
    IF p = "openai" THEN "OpenAI" ELSE IF p = "anthropic" THEN "Anthropic" ELSE "Groq"

failure_threshold(p) == IF p = "openai" THEN 5 ELSE IF p = "anthropic" THEN 3 ELSE 10

timeout_seconds(p) == IF p = "openai" THEN 60 ELSE IF p = "anthropic" THEN 120 ELSE 30

\* CircuitBreaker.__init__
NewBreaker == [state |-> "closed", failure_count |-> 0, last_failure_time |-> -1]

\* the ProviderMetrics that add_provider builds: the request counters and the
\* cost and token totals
NewMetrics ==
    [total_requests |-> 0, successful_requests |-> 0, failed_requests |-> 0,
     total_tokens_processed |-> 0, total_cost_usd |-> 0]

record_success_mutant(b) == b

\* CircuitBreaker.record_success
record_success(b) ==
    IF b.state = "half-open"
    THEN [b EXCEPT !.state = "closed", !.failure_count = 0]
    ELSE b

record_failure_mutant(b, p, t) ==
    LET b1 == [b EXCEPT !.failure_count = b.failure_count + 1, !.last_failure_time = t]
    IN IF b1.failure_count > failure_threshold(p)
       THEN [b1 EXCEPT !.state = "open"]
       ELSE b1

\* CircuitBreaker.record_failure
record_failure(b, p, t) ==
    LET b1 == [b EXCEPT !.failure_count = b.failure_count + 1, !.last_failure_time = t]
    IN IF b1.failure_count >= failure_threshold(p)
       THEN [b1 EXCEPT !.state = "open"]
       ELSE b1

can_execute_mutant(b, p, t) ==
    IF b.state = "closed" THEN [ok |-> TRUE, breaker |-> b]
    ELSE IF b.state = "open"
    THEN IF b.last_failure_time # -1 /\ t - b.last_failure_time > timeout_seconds(p)
         THEN [ok |-> TRUE, breaker |-> [b EXCEPT !.state = "half-open",
                                                  !.failure_count = 0]]
         ELSE [ok |-> FALSE, breaker |-> b]
    ELSE [ok |-> TRUE, breaker |-> b]

\* can_execute: the answer and the breaker it leaves
can_execute(b, p, t) ==
    IF b.state = "closed" THEN [ok |-> TRUE, breaker |-> b]
    ELSE IF b.state = "open"
    THEN IF b.last_failure_time # -1 /\ t - b.last_failure_time > timeout_seconds(p)
         THEN [ok |-> TRUE, breaker |-> [b EXCEPT !.state = "half-open"]]
         ELSE [ok |-> FALSE, breaker |-> b]
    ELSE [ok |-> TRUE, breaker |-> b]

\* _select_model for a simple prompt: the first model with "3.5", "haiku" or "8b"
_select_model(p) ==
    IF p = "openai" THEN "gpt-3.5-turbo"
    ELSE IF p = "anthropic" THEN "claude-3-haiku" ELSE "llama3-8b"

ProviderCost == 10

\* the ProviderResponse that _execute_provider builds (lines 288-299)
ProviderResponse(p, model, text) ==
    [content |-> [from |-> ProviderName(p), for |-> text],
     model_used |-> model, provider_id |-> p,
     prompt_tokens |-> TextLen(text) \div 4,
     completion_tokens |-> TextLen(text) \div 8,
     total_tokens |-> TextLen(text) \div 3,
     cost_usd |-> ProviderCost]

\* _select_fallback_model: supported_models[0]
_select_fallback_model(p) ==
    IF p = "openai" THEN "gpt-4"
    ELSE IF p = "anthropic" THEN "claude-3-opus" ELSE "llama3-8b"

\* _record_provider_success
_record_provider_success(m, response) ==
    [m EXCEPT !.successful_requests = @ + 1, !.total_requests = @ + 1,
              !.total_tokens_processed = @ + response.total_tokens,
              !.total_cost_usd = @ + response.cost_usd]

\* _record_provider_failure
_record_provider_failure(m) ==
    [m EXCEPT !.failed_requests = @ + 1, !.total_requests = @ + 1]

_execute_provider_mutant(breakers, ms, p, model, text, fails, t) ==
    LET ce == can_execute(breakers[p], p, t)
        response == ProviderResponse(p, model, text)
    IN IF ~ce.ok \/ fails
       THEN [result |-> IF ce.ok THEN "failed" ELSE "blocked", response |-> response,
             breakers |-> [breakers EXCEPT ![p] = record_failure(ce.breaker, p, t)],
             metrics |-> [ms EXCEPT ![p] = _record_provider_failure(@)]]
       ELSE [result |-> "success", response |-> response,
             breakers |-> [breakers EXCEPT ![p] = record_success(ce.breaker)],
             metrics |-> [ms EXCEPT ![p] = _record_provider_success(@, response)]]

\* _execute_provider: refused by the breaker (line 279), or the call made; an
\* exception inside the try block (fails: the awaited call, or a
\* ProviderResponse rejected because time.time() stepped back and
\* response_time_ms is negative) is recorded on the breaker and the metrics
\* and raised again
_execute_provider(breakers, ms, p, model, text, fails, t) ==
    LET ce == can_execute(breakers[p], p, t)
        response == ProviderResponse(p, model, text)
    IN IF ~ce.ok
       THEN [result |-> "blocked", response |-> response,
             breakers |-> breakers, metrics |-> ms]
       ELSE IF fails
       THEN [result |-> "failed", response |-> response,
             breakers |-> [breakers EXCEPT ![p] = record_failure(ce.breaker, p, t)],
             metrics |-> [ms EXCEPT ![p] = _record_provider_failure(@)]]
       ELSE [result |-> "success", response |-> response,
             breakers |-> [breakers EXCEPT ![p] = record_success(ce.breaker)],
             metrics |-> [ms EXCEPT ![p] = _record_provider_success(@, response)]]

\* the providers of a selection in the order execute_chain tries them
Chain(selection) == <<selection.selected_provider>> \o selection.fallback_providers

\* execute_chain from the i-th provider of the chain on: the first success is
\* returned; each exception is recorded on the metrics (lines 255, 268) and
\* the next provider is tried; after the last, Exception("All providers failed")
RECURSIVE ChainLoop(_, _, _, _, _, _, _, _)
ChainLoop(breakers, ms, selection, i, text, failing, t, attempts) ==
    IF i > Len(Chain(selection))
    THEN [raised |-> TRUE, exception |-> "All providers failed",
          response |-> ProviderResponse("", "", text),
          breakers |-> breakers, metrics |-> ms, attempts |-> attempts]
    ELSE LET p == Chain(selection)[i]
             model == IF i = 1 THEN selection.selected_model
                      ELSE _select_fallback_model(p)
             x == _execute_provider(breakers, ms, p, model, text, p \in failing, t)
         IN IF x.result = "success"
            THEN [raised |-> FALSE, exception |-> "", response |-> x.response,
                  breakers |-> x.breakers, metrics |-> x.metrics,
                  attempts |-> Append(attempts, <<p, x.result>>)]
            ELSE ChainLoop(x.breakers,
                           [x.metrics EXCEPT ![p] = _record_provider_failure(@)],
                           selection, i + 1, text, failing, t,
                           Append(attempts, <<p, x.result>>))

execute_chain_mutant(breakers, ms, selection, text, failing, t) ==
    ChainLoop(breakers, ms, selection, 2, text, failing, t, <<>>)

\* execute_chain(prompt, selection, request)
execute_chain(breakers, ms, selection, text, failing, t) ==
    ChainLoop(breakers, ms, selection, 1, text, failing, t, <<>>)

\* get_available_providers: every provider is enabled and active; each
\* breaker is asked and may move from open to half-open
BreakersAfterQuery(breakers, t) ==
    [p \in Providers |-> can_execute(breakers[p], p, t).breaker]

get_available_providers_mutant(breakers, t) == Providers

get_available_providers(breakers, t) ==
    {p \in Providers : can_execute(breakers[p], p, t).ok}

\* select: ValueError without an available provider; otherwise line 159 calls
\* CircuitBreaker.get_status, which the class does not define: AttributeError.
\* No path reaches the return of line 164.  candidates are the providers of
\* provider_scores, of which lines 149-153 make selected_provider and
\* fallback_providers before line 159 raises.
select(breakers, t) ==
    [raised |-> TRUE,
     exception |-> IF get_available_providers(breakers, t) = {}
                   THEN "ValueError" ELSE "AttributeError",
     candidates |-> get_available_providers(breakers, t),
     breakers |-> BreakersAfterQuery(breakers, t)]

\* ComplexityLevel
ComplexityLevels == {"simple", "moderate", "complex", "very_complex"}

\* the providers in the order _initialize_default_providers adds them, which
\* is the order of the dict self.providers
RegistrationOrder == <<"openai", "anthropic", "groq">>

\* metrics.success_rate = m.successful_requests / m.total_requests, 0.0
\* before the first request
RateIs(m, num, den) ==
    m.total_requests > 0 /\ den * m.successful_requests = num * m.total_requests

\* the sum of _calculate_provider_score in sixtieths: cost_score * 0.3
\* (openai 0.15, anthropic 0, groq 0.25), the bonus of the complexity level,
\* success_rate * 0.2 and 0.1 for a closed breaker, kept within 0.0 and 1.0
ScoreSixtieths(p, level, m, b) ==
    LET cost == IF p = "openai" THEN 9 ELSE IF p = "groq" THEN 15 ELSE 0
        performance ==
            IF level = "simple"
            THEN (IF p = "groq" THEN 24 ELSE IF p = "openai" THEN 18 ELSE 0)
            ELSE IF level = "complex"
            THEN (IF p = "anthropic" THEN 24 ELSE IF p = "openai" THEN 18 ELSE 0)
            ELSE 0
        reliability == IF m.total_requests = 0 THEN 0
                       ELSE (12 * m.successful_requests) \div m.total_requests
        availability == IF b.state = "closed" THEN 6 ELSE 0
        score == cost + performance + reliability + availability
    IN Max(0, IF score > 60 THEN 60 ELSE score)

\* the float sum of _calculate_provider_score against the double nearest to
\* its exact value: one unit in the last place below (-1), equal (0) or one
\* above (1), for the success rates of up to three requests
ScoreRounding(p, level, m, b) ==
    LET closed == b.state = "closed"
    IN IF p = "openai"
       THEN (IF level \in {"simple", "complex"} THEN -1
             ELSE IF closed /\ (RateIs(m, 1, 1) \/ RateIs(m, 2, 3)) THEN -1 ELSE 0)
       ELSE IF p = "anthropic"
       THEN (IF level = "complex"
             THEN (IF RateIs(m, 1, 1) THEN 1 ELSE 0)
             ELSE IF closed /\ (RateIs(m, 1, 1) \/ RateIs(m, 1, 3)) THEN 1 ELSE 0)
       ELSE IF level = "simple"
       THEN (IF RateIs(m, 1, 1) THEN 1 ELSE 0)
       ELSE IF \/ closed /\ (RateIs(m, 1, 2) \/ RateIs(m, 1, 3) \/ RateIs(m, 2, 3))
               \/ ~closed /\ RateIs(m, 2, 3)
       THEN -1 ELSE 0

\* _calculate_provider_score: a number that orders as the float score does
_calculate_provider_score(p, level, m, b) ==
    3 * ScoreSixtieths(p, level, m, b) + ScoreRounding(p, level, m, b)

\* the list available_providers: the available providers in dict order
RECURSIVE AvailableList(_, _)
AvailableList(order, available) ==
    IF order = <<>> THEN <<>>
    ELSE (IF Head(order) \in available THEN <<Head(order)>> ELSE <<>>)
            \o AvailableList(Tail(order), available)

\* x put into the list sorted, after the members whose score is not below
\* the score of x
RECURSIVE InsertByScore(_, _, _)
InsertByScore(sorted, x, score) ==
    IF sorted = <<>> THEN <<x>>
    ELSE IF score[Head(sorted)] >= score[x]
    THEN <<Head(sorted)>> \o InsertByScore(Tail(sorted), x, score)
    ELSE <<x>> \o sorted

RECURSIVE SortByScoreFrom(_, _, _)
SortByScoreFrom(sorted, rest, score) ==
    IF rest = <<>> THEN sorted
    ELSE SortByScoreFrom(InsertByScore(sorted, Head(rest), score), Tail(rest), score)

SortByScore_mutant(list, score) == list

\* provider_scores.sort(key=score, reverse=True) (line 146): descending, and
\* stable, so that providers of equal score keep the order of the list
SortByScore(list, score) == SortByScoreFrom(<<>>, list, score)

\* the providers of provider_scores after line 146; the breakers are those
\* get_available_providers leaves (line 135)
provider_scores(breakers, ms, level, t) ==
    LET queried == BreakersAfterQuery(breakers, t)
        score == [p \in Providers |->
                    _calculate_provider_score(p, level, ms[p], queried[p])]
    IN SortByScore(AvailableList(RegistrationOrder,
                                 get_available_providers(breakers, t)), score)

\* selected_provider, alternative_providers and fallback_providers as lines
\* 149-153 make them from provider_scores; no model is selected before line
\* 159 raises
SelectionOf(scores) ==
    [selected_provider |-> scores[1],
     selected_model |-> "",
     alternative_providers |-> SubSeq(scores, 2, IF Len(scores) < 3 THEN Len(scores) ELSE 3),
     fallback_providers |-> Tail(scores)]

-----------------------------------------------------------------------------
(* MemoryCache, RedisCache, PostgresCache, CacheManager.  The OrderedDict   *)
(* of tier 1 is a sequence of <<key, entry, written_at>>, oldest first;     *)
(* written_at is the datetime.now() of the MemoryCache.set that put the     *)
(* entry there.  No write of this program reaches tier 2 (json.dumps of an  *)
(* entry with datetime fields raises in RedisCache.set): what RedisCache.get *)
(* finds is what the Redis server holds, l2_data.  Tier 3 is simulated and  *)
(* its get always misses.                                                   *)

L1MaxSize == 1000
L1MaxAge == 300
L2MaxAge == 3600
L3MaxAge == 86400

IndexOfKey(cache, key) ==
    IF \E i \in 1..Len(cache) : cache[i][1] = key
    THEN CHOOSE i \in 1..Len(cache) : cache[i][1] = key
    ELSE 0

RemoveAt(cache, i) == SubSeq(cache, 1, i - 1) \o SubSeq(cache, i + 1, Len(cache))

NoEntry ==
    [value |-> [from |-> "", for |-> [words |-> <<>>, dot |-> FALSE]],
     level |-> "", prompt_tokens |-> 0, completion_tokens |-> 0, total_tokens |-> 0,
     cost_usd |-> 0, model_used |-> "", provider_used |-> "", expires_at |-> 0]

\* MemoryCache.get: the entry found (or none) and the cache it leaves
MemoryCacheGet(cache, key, t) ==
    LET i == IndexOfKey(cache, key)
    IN IF i = 0 THEN [found |-> FALSE, entry |-> NoEntry, cache |-> cache]
       ELSE IF t > cache[i][2].expires_at
       THEN [found |-> FALSE, entry |-> NoEntry, cache |-> RemoveAt(cache, i)]
       ELSE [found |-> TRUE, entry |-> cache[i][2],
             cache |-> RemoveAt(cache, i) \o <<cache[i]>>]

MemoryCacheSetMax_mutant(cache, key, entry, t, max_size) ==
    LET e == [entry EXCEPT !.expires_at = t + L1MaxAge, !.level = "l1"]
        i == IndexOfKey(cache, key)
    IN IF i = 0 THEN cache \o <<<<key, e, t>>>> ELSE [cache EXCEPT ![i] = <<key, e, t>>]

\* MemoryCache.set of a MemoryCache(max_size): the oldest entry goes when the
\* cache is full, then cache[key] = entry keeps the place of a key already
\* present
MemoryCacheSetMax(cache, key, entry, t, max_size) ==
    LET e == [entry EXCEPT !.expires_at = t + L1MaxAge, !.level = "l1"]
        c1 == IF Len(cache) >= max_size THEN Tail(cache) ELSE cache
        i == IndexOfKey(c1, key)
    IN IF i = 0 THEN c1 \o <<<<key, e, t>>>> ELSE [c1 EXCEPT ![i] = <<key, e, t>>]

\* MemoryCache.set of the MemoryCache() of the CacheManager
MemoryCacheSet(cache, key, entry, t) ==
    MemoryCacheSetMax(cache, key, entry, t, L1MaxSize)

\* data of the Redis server that json.loads or CacheEntry(**entry_dict) rejects
Unparsable == [NoEntry EXCEPT !.level = "unparsable"]

RedisCacheGetMutant(client, redis, key) ==
    IF client /\ key \in DOMAIN redis
    THEN [found |-> TRUE,
          entry |-> IF redis[key] = Unparsable THEN NoEntry ELSE redis[key]]
    ELSE [found |-> FALSE, entry |-> NoEntry]

\* RedisCache.get: nothing without a client, else what the server holds; an
\* exception of the parse is caught (line 135) and the answer is None
RedisCacheGet(client, redis, key) ==
    IF client /\ key \in DOMAIN redis /\ redis[key] # Unparsable
    THEN [found |-> TRUE, entry |-> redis[key]]
    ELSE [found |-> FALSE, entry |-> NoEntry]

\* RedisCache.set: False without a client; with one, json.dumps(entry.dict())
\* raises TypeError on the datetime fields, caught at line 154: False
RedisCacheSet(client) == IF ~client THEN FALSE ELSE FALSE

lookup_mutant(cache, client, redis, text, t) ==
    LET g == MemoryCacheGet(cache, text, t)
        r == RedisCacheGet(client, redis, text)
    IN IF g.found
       THEN [found |-> TRUE, level |-> "l1", entry |-> g.entry, cache |-> g.cache,
             tiers |-> <<"l1">>]
       ELSE IF r.found
       THEN [found |-> TRUE, level |-> "l2", entry |-> r.entry, cache |-> g.cache,
             tiers |-> <<"l1", "l2">>]
       ELSE [found |-> FALSE, level |-> "", entry |-> NoEntry, cache |-> g.cache,
             tiers |-> <<"l1", "l2", "l3">>]

\* CacheManager.lookup: tier 1; then tier 2, whose hit is put into tier 1
\* (the entry returned is the object tier 1 now holds); then tier 3, which
\* misses.  tiers are the tiers asked, in order.
lookup(cache, client, redis, text, t) ==
    LET g == MemoryCacheGet(cache, text, t)
        r == RedisCacheGet(client, redis, text)
        c1 == MemoryCacheSet(g.cache, text, r.entry, t)
    IN IF g.found
       THEN [found |-> TRUE, level |-> "l1", entry |-> g.entry, cache |-> g.cache,
             tiers |-> <<"l1">>]
       ELSE IF r.found
       THEN [found |-> TRUE, level |-> "l2", entry |-> c1[IndexOfKey(c1, text)][2],
             cache |-> c1, tiers |-> <<"l1", "l2">>]
       ELSE [found |-> FALSE, level |-> "", entry |-> NoEntry, cache |-> g.cache,
             tiers |-> <<"l1", "l2", "l3">>]

\* CacheManager.store: one CacheEntry object is handed to the three tiers;
\* RedisCache.set (with a client) and PostgresCache.set overwrite its level and
\* expires_at, and tier 1 holds that same object
CacheEntryMutant(response) ==
    [value |-> NoEntry.value, level |-> "l1",
     prompt_tokens |-> response.prompt_tokens,
     completion_tokens |-> response.completion_tokens,
     total_tokens |-> response.total_tokens,
     cost_usd |-> response.cost_usd,
     model_used |-> response.model_used,
     provider_used |-> response.provider_id,
     expires_at |-> 0]

\* the CacheEntry that store builds from the response (lines 354-368)
CacheEntry(response) ==
    [value |-> response.content, level |-> "l1",
     prompt_tokens |-> response.prompt_tokens,
     completion_tokens |-> response.completion_tokens,
     total_tokens |-> response.total_tokens,
     cost_usd |-> response.cost_usd,
     model_used |-> response.model_used,
     provider_used |-> response.provider_id,
     expires_at |-> 0]

store(cache, client, text, response, t) ==
    LET entry == CacheEntry(response)
        c1 == MemoryCacheSet(cache, text, entry, t)
        i == IndexOfKey(c1, text)
        e1 == c1[i][2]
        e2 == IF client THEN [e1 EXCEPT !.level = "l2", !.expires_at = t + L2MaxAge] ELSE e1
        e3 == [e2 EXCEPT !.level = "l3", !.expires_at = t + L3MaxAge]
    IN [c1 EXCEPT ![i] = <<text, e3, c1[i][3]>>]

\* the CacheStoreResult of store (lines 370-393)
store_result(client) ==
    LET l1_success == TRUE
        l2_success == RedisCacheSet(client)
        l3_success == TRUE
    IN [success |-> l1_success \/ l2_success \/ l3_success,
        level |-> IF l1_success THEN "l1" ELSE IF l2_success THEN "l2"
                  ELSE IF l3_success THEN "l3" ELSE "l1"]

-----------------------------------------------------------------------------
(* IntelligentRouter *)

\* the values of the enum ModelProvider
ModelProvider == {"openai", "anthropic", "groq", "local"}

\* the field constraints of AIResponse: provider_used is a ModelProvider,
\* the token counts and the cost are ge=0
AIResponseValid(r) ==
    /\ r.provider_used \in ModelProvider
    /\ r.prompt_tokens >= 0 /\ r.completion_tokens >= 0 /\ r.total_tokens >= 0
    /\ r.cost_usd >= 0

EmptyContent == [from |-> "", for |-> [words |-> <<>>, dot |-> FALSE]]

\* the arguments of the two unsuccessful AIResponse calls (lines 64-79, 148-164)
FailureResponse(error) ==
    [content |-> EmptyContent, model_used |-> "", provider_used |-> "",
     prompt_tokens |-> 0, completion_tokens |-> 0, total_tokens |-> 0,
     cost_usd |-> 0, cache_hit |-> FALSE, cache_level |-> "",
     success |-> FALSE, error |-> error]

CachedResponseMutant(entry, level) ==
    [content |-> entry.value, model_used |-> entry.model_used,
     provider_used |-> entry.provider_used,
     prompt_tokens |-> entry.prompt_tokens,
     completion_tokens |-> entry.completion_tokens,
     total_tokens |-> entry.total_tokens,
     cost_usd |-> 0, cache_hit |-> TRUE, cache_level |-> level,
     success |-> TRUE, error |-> ""]

\* the arguments of the AIResponse of a cache hit (lines 86-102)
CachedResponse(entry, level) ==
    [content |-> entry.value, model_used |-> entry.model_used,
     provider_used |-> entry.provider_used,
     prompt_tokens |-> entry.prompt_tokens,
     completion_tokens |-> entry.completion_tokens,
     total_tokens |-> entry.total_tokens,
     cost_usd |-> entry.cost_usd, cache_hit |-> TRUE, cache_level |-> level,
     success |-> TRUE, error |-> ""]

\* how a call of route_request ends with the state st it has built so far:
\* the except clause of line 144 builds AIResponse(..., error=str(e))
Handle(exception, st) ==
    IF AIResponseValid(FailureResponse(exception))
    THEN [st EXCEPT !.outcome = "returned", !.response = FailureResponse(exception)]
    ELSE [st EXCEPT !.outcome = "raised", !.exception = "ValidationError"]

\* return AIResponse(...) inside the try block
Return(response, st) ==
    IF AIResponseValid(response)
    THEN [st EXCEPT !.outcome = "returned", !.response = response]
    ELSE Handle("ValidationError", st)

NoAuth ==
    [raised |-> FALSE, approved |-> FALSE, status |-> "", level |-> "", entity_id |-> "",
     current_usage |-> 0, budget_limit |-> 0, remaining_budget |-> 0,
     estimated_cost |-> 0, would_exceed |-> FALSE]

\* route_request(request) in the state (configs, usage, cache, breakers) at
\* time t: how it ends, the calls it made in order, and the state it leaves
route_request(configs, usage, cache, client, redis, breakers, request, t) ==
    LET st0 == [outcome |-> "", response |-> FailureResponse(""), exception |-> "",
                trace |-> <<"optimize_request">>, auth |-> NoAuth, hit |-> FALSE, usage |-> usage, cache |-> cache, breakers |-> breakers]
        opt == optimize_request(request)
    IN IF opt.raised THEN Handle(opt.exception, st0)
       ELSE
       LET estimated_cost == estimate_request_cost(request)
           chk == check_authorization(configs, usage, request, estimated_cost, t)
           st1 == [st0 EXCEPT
                     !.trace = @ \o <<"analyze_request", "estimate_request_cost",
                                       "check_authorization">>,
                     !.auth = chk.auth, !.usage = chk.usage]
       IN IF chk.auth.raised THEN Handle("ValidationError", st1)
          ELSE IF ~chk.auth.approved
          THEN Return(FailureResponse("Budget exceeded: Request would exceed "
                                        \o chk.auth.level \o " budget limit"), st1)
          ELSE
          LET lk == lookup(cache, client, redis, opt.text, t)
              st2 == [st1 EXCEPT !.trace = @ \o <<"lookup">>,
                                 !.cache = lk.cache, !.hit = lk.found]
          IN IF lk.found
             THEN Return(CachedResponse(lk.entry, lk.level), st2)
             ELSE
             LET sel == select(breakers, t)
                 st3 == [st2 EXCEPT !.trace = @ \o <<"select">>,
                                    !.breakers = sel.breakers]
             IN Handle(sel.exception, st3)

-----------------------------------------------------------------------------
(* State machine *)

ConfigLimits == {1, 2}
ConfigThresholds == {50}

\* the clock moves by a day: the longest cache TTL
ClockStep == L3MaxAge

\* the router is built a day before the end of a budget window
InitialTime == PeriodSeconds - ClockStep

EmptyDict == [x \in {} |-> 0]

\* the requests of the calls made on the BudgetController alone: the prompt
\* plays no part there
BudgetRequests == {r \in AIRequest : r.prompt = <<"hello">>}

\* the prompts whose optimized text is stored by a call of CacheManager.store
StorePrompts == {<<"hello">>}

\* the providers whose response is stored that way
StoreProviders == {"groq", "openai"}

\* the requests routed: a user, and a team or none
RouterRequests == {r \in AIRequest : r.company_id = None}

\* the prompts whose optimized text is stored and looked up by the calls made
\* on the CacheManager alone
CachePrompts == {<<"hello">>, <<"please">>}

\* the ProviderResponse handed to store, in the fields of an AIResponse
StoredResponse(r) ==
    [content |-> r.content, model_used |-> r.model_used, provider_used |-> r.provider_id,
     prompt_tokens |-> r.prompt_tokens, completion_tokens |-> r.completion_tokens,
     total_tokens |-> r.total_tokens, cost_usd |-> r.cost_usd,
     cache_hit |-> FALSE, cache_level |-> "", success |-> TRUE, error |-> ""]

\* no ProviderSelection
NoSelection == [selected_provider |-> "", selected_model |-> "",
                alternative_providers |-> <<>>, fallback_providers |-> <<>>]

NoRequest == [prompt |-> <<>>, user_id |-> None, team_id |-> None, company_id |-> None]

\* the record of the last call: what was called, how it ended and the calls
\* it made in order; streak is, for each provider, the number of failures
\* recorded on its breaker since the last success recorded on it, was the
\* state of the breaker when the call was made, and used the keys of tier 1
\* from the least to the most recently used, a get that found the key and a
\* set being a use, and evicted the keys the call took out of tier 1;
\* inflight are the record_usage calls that were made and have not run, and
\* ledger, for each scope, the sum of the costs and the number of the
\* record_usage calls that completed in the window of now
NoLast ==
    [op |-> "", request |-> NoRequest, outcome |-> "",
     response |-> FailureResponse(""), exception |-> "", trace |-> <<>>,
     auth |-> NoAuth, hit |-> FALSE, actual_cost |-> 0, rolled |-> {},
     stored |-> [success |-> FALSE, level |-> ""],
     provider |-> "", answer |-> FALSE, attempts |-> <<>>,
     selection |-> NoSelection, available |-> {},
     text |-> [words |-> <<>>, dot |-> FALSE],
     streak |-> [p \in Providers |-> 0], was |-> "", level |-> "", used |-> <<>>,
     evicted |-> {}, inflight |-> {},
     ledger |-> [k \in BudgetKeys |-> [sum |-> 0, count |-> 0]]]

\* the scopes whose usage record a call replaced by the record of a new
\* window, each with the used_usd of the record replaced
Rolled(usage, usage1) ==
    {<<k, usage[k].used_usd>> :
        k \in {x \in DOMAIN usage : usage1[x].period_start # usage[x].period_start}}

Init ==
    /\ budget_configs = EmptyDict
    /\ budget_usage = EmptyDict
    /\ l1_cache = <<>>
    /\ l2_client \in BOOLEAN
    /\ l2_data = EmptyDict
    /\ circuit_breakers = [p \in Providers |-> NewBreaker]
    /\ metrics = [p \in Providers |-> NewMetrics]
    /\ now = InitialTime
    /\ last = NoLast

\* BudgetController.add_budget_config, at start-up
AddBudgetConfig(key, limit, threshold, rollover) ==
    /\ budget_usage = EmptyDict
    /\ key \notin DOMAIN budget_configs
    /\ budget_configs' = Put(budget_configs, key,
                             [limit_usd |-> limit, warning_threshold |-> threshold,
                              rollover |-> rollover])
    /\ last' = [NoLast EXCEPT !.op = "add_budget_config"]
    /\ UNCHANGED <<budget_usage, l1_cache, l2_client, l2_data, circuit_breakers, metrics, now>>

\* BudgetController.check_authorization called on its own
CheckAuthorization(request, estimated_cost) ==
    \E chk \in {check_authorization(budget_configs, budget_usage, request,
                                    estimated_cost, now)} :
       /\ budget_usage' = chk.usage
       /\ last' = [NoLast EXCEPT !.op = "check_authorization", !.request = request,
                                 !.outcome = IF chk.auth.raised THEN "raised" ELSE "returned",
                                 !.exception = IF chk.auth.raised THEN "ValidationError" ELSE "",
                                 !.trace = <<"check_authorization">>,
                                 !.auth = chk.auth,
                                 !.rolled = Rolled(budget_usage, chk.usage)]
       /\ UNCHANGED <<budget_configs, l1_cache, l2_client, l2_data, circuit_breakers, metrics, now>>

\* BudgetController.record_usage called on its own
RecordUsageUpTo(request, actual_cost, max) ==
    /\ \A i \in 1..Len(_get_entity_hierarchy(request)) :
          LET key == _get_entity_hierarchy(request)[i]
          IN key \in DOMAIN budget_usage => budget_usage[key].request_count < max
    /\ \E usage1 \in {record_usage(budget_configs, budget_usage, request, actual_cost, now)} :
          /\ budget_usage' = usage1
          /\ last' = [NoLast EXCEPT !.op = "record_usage", !.request = request,
                                    !.outcome = "returned", !.trace = <<"record_usage">>,
                                    !.actual_cost = actual_cost,
                                    !.rolled = Rolled(budget_usage, usage1)]
    /\ UNCHANGED <<budget_configs, l1_cache, l2_client, l2_data, circuit_breakers, metrics, now>>

RecordUsage(request, actual_cost) == RecordUsageUpTo(request, actual_cost, MaxRequests)

\* BudgetController.get_budget_summary called on its own
GetBudgetSummary(key) ==
    \E usage1 \in {get_budget_summary(budget_configs, budget_usage, key, now)} :
       /\ budget_usage' = usage1
       /\ last' = [NoLast EXCEPT !.op = "get_budget_summary", !.outcome = "returned",
                                 !.trace = <<"get_budget_summary">>,
                                 !.rolled = Rolled(budget_usage, usage1)]
       /\ UNCHANGED <<budget_configs, l1_cache, l2_client, l2_data, circuit_breakers, metrics, now>>

\* CacheManager.store called on its own with the response of provider p to
\* the optimized text of prompt
CacheStore(prompt, p) ==
    /\ l1_cache' = store(l1_cache, l2_client, optimise(prompt).text,
                         ProviderResponse(p, _select_model(p), optimise(prompt).text), now)
    /\ last' = [NoLast EXCEPT !.op = "store", !.outcome = "returned",
                              !.request = [NoRequest EXCEPT !.prompt = prompt],
                              !.response = StoredResponse(
                                 ProviderResponse(p, _select_model(p), optimise(prompt).text)),
                              !.stored = store_result(l2_client),
                              !.trace = <<"store">>]
    /\ UNCHANGED <<budget_configs, budget_usage, l2_client, l2_data, circuit_breakers, metrics, now>>

\* CacheManager.lookup called on its own with the optimized text of prompt
CacheLookup(prompt) ==
    \E lk \in {lookup(l1_cache, l2_client, l2_data, optimise(prompt).text, now)} :
       /\ l1_cache' = lk.cache
       /\ last' = [NoLast EXCEPT !.op = "lookup", !.outcome = "returned",
                                 !.request = [NoRequest EXCEPT !.prompt = prompt],
                                 !.response = IF lk.found
                                              THEN CachedResponse(lk.entry, lk.level)
                                              ELSE FailureResponse(""),
                                 !.hit = lk.found, !.trace = lk.tiers]
       /\ UNCHANGED <<budget_configs, budget_usage, l2_client, l2_data, circuit_breakers, metrics, now>>

\* another client of the Redis server puts there, for the optimized text of
\* prompt, the entry of the response of provider p
RedisWrite(prompt, p) ==
    /\ l2_client
    /\ l2_data' = Put(l2_data, optimise(prompt).text,
                      [CacheEntry(ProviderResponse(p, _select_model(p),
                                                   optimise(prompt).text))
                         EXCEPT !.level = "l2", !.expires_at = now + L2MaxAge])
    /\ last' = [NoLast EXCEPT !.op = "redis_write"]
    /\ UNCHANGED <<budget_configs, budget_usage, l1_cache, l2_client, circuit_breakers, metrics, now>>

\* the Redis server holds, for the optimized text of prompt, data that does
\* not parse into a CacheEntry
RedisCorrupt(prompt) ==
    /\ l2_client
    /\ l2_data' = Put(l2_data, optimise(prompt).text, Unparsable)
    /\ last' = [NoLast EXCEPT !.op = "redis_corrupt"]
    /\ UNCHANGED <<budget_configs, budget_usage, l1_cache, l2_client, circuit_breakers, metrics, now>>

\* the wall clock moves on by the TTL of tier 1
Tick ==
    /\ now + L1MaxAge <= InitialTime + MaxTicks * L1MaxAge
    /\ now' = now + L1MaxAge
    /\ last' = [NoLast EXCEPT !.op = "tick"]
    /\ UNCHANGED <<budget_configs, budget_usage, l1_cache, l2_client, l2_data, circuit_breakers, metrics>>

\* IntelligentRouter.route_request
RouteRequest(request) ==
    \E r \in {route_request(budget_configs, budget_usage, l1_cache, l2_client, l2_data,
                            circuit_breakers, request, now)} :
       /\ budget_usage' = r.usage
       /\ l1_cache' = r.cache
       /\ circuit_breakers' = r.breakers
       /\ last' = [NoLast EXCEPT !.op = "route_request", !.request = request,
                                 !.outcome = r.outcome, !.response = r.response,
                                 !.exception = r.exception, !.trace = r.trace,
                                 !.auth = r.auth, !.hit = r.hit]
       /\ UNCHANGED <<budget_configs, l2_client, l2_data, metrics, now>>

\* the wall clock moves on
AdvanceClock ==
    /\ now + ClockStep <= InitialTime + MaxAdvances * ClockStep
    /\ now' = now + ClockStep
    /\ last' = [NoLast EXCEPT !.op = "advance"]
    /\ UNCHANGED <<budget_configs, budget_usage, l1_cache, l2_client, l2_data, circuit_breakers, metrics>>

NextBudget ==
    \/ \E key \in BudgetKeys, limit \in ConfigLimits, threshold \in ConfigThresholds :
          AddBudgetConfig(key, limit, threshold, FALSE)
    \/ \E request \in BudgetRequests, estimated_cost \in 0..MaxEstimate :
          CheckAuthorization(request, estimated_cost)
    \/ \E request \in BudgetRequests, actual_cost \in 1..MaxCost :
          RecordUsage(request, actual_cost)
    \/ AdvanceClock

InitBudget == Init /\ l2_client = FALSE

SpecBudget == InitBudget /\ [][NextBudget]_vars

Next ==
    \/ \E key \in {k \in BudgetKeys : k[1] # "company"},
          limit \in ConfigLimits, threshold \in ConfigThresholds :
          AddBudgetConfig(key, limit, threshold, FALSE)
    \/ \E request \in BudgetRequests \cap RouterRequests, actual_cost \in 1..MaxCost :
          RecordUsage(request, actual_cost)
    \/ \E prompt \in StorePrompts, p \in StoreProviders : CacheStore(prompt, p)
    \/ \E request \in RouterRequests : RouteRequest(request)
    \/ AdvanceClock

Spec == Init /\ [][Next]_vars

\* the CacheManager alone, with a Redis server that other clients write to
NextCache ==
    \/ \E prompt \in CachePrompts, p \in StoreProviders : CacheStore(prompt, p)
    \/ \E prompt \in CachePrompts : CacheLookup(prompt)
    \/ \E prompt \in CachePrompts, p \in StoreProviders : RedisWrite(prompt, p)
    \/ \E prompt \in CachePrompts : RedisCorrupt(prompt)
    \/ Tick

SpecCache == Init /\ [][NextCache]_vars

\* the providers whose breaker is driven through the methods of CircuitBreaker
BreakerProviders == {"anthropic", "openai"}

\* the step of the wall clock where breakers are watched: the shortest
\* circuit_breaker_timeout of the default providers (line 104)
BreakerStep == 30

\* CircuitBreaker.record_failure on the breaker of p
RecordFailure(p) ==
    /\ circuit_breakers[p].failure_count < MaxFailures
    /\ circuit_breakers' = [circuit_breakers EXCEPT ![p] = record_failure(@, p, now)]
    /\ last' = [NoLast EXCEPT !.op = "record_failure", !.provider = p,
                              !.was = circuit_breakers[p].state,
                              !.streak = [last.streak EXCEPT ![p] = @ + 1]]
    /\ UNCHANGED <<budget_configs, budget_usage, l1_cache, l2_client, l2_data, metrics, now>>

\* CircuitBreaker.record_success on the breaker of p
RecordSuccess(p) ==
    /\ circuit_breakers' = [circuit_breakers EXCEPT ![p] = record_success(@)]
    /\ last' = [NoLast EXCEPT !.op = "record_success", !.provider = p,
                              !.was = circuit_breakers[p].state,
                              !.streak = [last.streak EXCEPT ![p] = 0]]
    /\ UNCHANGED <<budget_configs, budget_usage, l1_cache, l2_client, l2_data, metrics, now>>

\* CircuitBreaker.can_execute on the breaker of p
CanExecute(p) ==
    \E r \in {can_execute(circuit_breakers[p], p, now)} :
       /\ circuit_breakers' = [circuit_breakers EXCEPT ![p] = r.breaker]
       /\ last' = [NoLast EXCEPT !.op = "can_execute", !.provider = p, !.answer = r.ok,
                                 !.was = circuit_breakers[p].state,
                                 !.streak = last.streak]
       /\ UNCHANGED <<budget_configs, budget_usage, l1_cache, l2_client, l2_data, metrics, now>>

\* the wall clock moves on by BreakerStep
BreakerTick ==
    /\ now + BreakerStep <= InitialTime + MaxBreakerTicks * BreakerStep
    /\ now' = now + BreakerStep
    /\ last' = [NoLast EXCEPT !.op = "tick", !.streak = last.streak]
    /\ UNCHANGED <<budget_configs, budget_usage, l1_cache, l2_client, l2_data,
                   circuit_breakers, metrics>>

\* the circuit breakers alone
NextBreaker ==
    \/ \E p \in BreakerProviders : RecordFailure(p)
    \/ \E p \in BreakerProviders : RecordSuccess(p)
    \/ \E p \in BreakerProviders : CanExecute(p)
    \/ BreakerTick

SpecBreaker == InitBudget /\ [][NextBreaker]_vars

\* the sequences without repetition of the members of S
RECURSIVE Arrangements(_)
Arrangements(S) ==
    {<<>>} \cup UNION {{<<x>> \o a : a \in Arrangements(S \ {x})} : x \in S}

\* the selections handed to execute_chain: a registered provider with its
\* model, and as fallbacks other registered providers, each once
Selections ==
    {[selected_provider |-> p, selected_model |-> _select_model(p),
      alternative_providers |-> SubSeq(f, 1, IF Len(f) < 2 THEN Len(f) ELSE 2),
      fallback_providers |-> f] :
        <<p, f>> \in {<<q, g>> \in Providers \X Arrangements(Providers) :
                         \A i \in 1..Len(g) : g[i] # q}}

\* the optimized texts executed
ChainTexts == {optimise(prompt).text : prompt \in CachePrompts}

\* the requests counted by the metrics of all the providers
TotalRequests(ms) ==
    ms["anthropic"].total_requests + ms["groq"].total_requests
       + ms["openai"].total_requests

\* the streaks after the attempts a: a failed call is a failure recorded
\* (line 307), a call that succeeded a success recorded (line 301), and a
\* provider refused by its breaker has nothing recorded (line 279)
RECURSIVE StreakAfter(_, _)
StreakAfter(streak, a) ==
    IF a = <<>> THEN streak
    ELSE LET p == Head(a)[1]
             result == Head(a)[2]
         IN StreakAfter([streak EXCEPT ![p] = IF result = "failed" THEN @ + 1
                                             ELSE IF result = "success" THEN 0 ELSE @],
                        Tail(a))

\* ProviderRegistry.select called on its own for a prompt of the complexity
\* level; selection holds the providers lines 149-153 name before line 159
\* raises
Select(level) ==
    \E r \in {select(circuit_breakers, now)} :
       /\ circuit_breakers' = r.breakers
       /\ last' = [NoLast EXCEPT !.op = "select",
                                 !.outcome = IF r.raised THEN "raised" ELSE "returned",
                                 !.exception = r.exception,
                                 !.available = r.candidates,
                                 !.level = level,
                                 !.selection =
                                    IF r.candidates = {} THEN NoSelection
                                    ELSE SelectionOf(provider_scores(circuit_breakers,
                                                                     metrics, level, now)),
                                 !.streak = last.streak]
       /\ UNCHANGED <<budget_configs, budget_usage, l1_cache, l2_client, l2_data, metrics, now>>

\* ProviderRegistry.execute_chain called on its own; the calls to the
\* providers of failing raise
ExecuteChain(text, selection, failing) ==
    /\ TotalRequests(metrics) < MaxAttempts
    /\ \E r \in {execute_chain(circuit_breakers, metrics, selection, text, failing, now)} :
          /\ circuit_breakers' = r.breakers
          /\ metrics' = r.metrics
          /\ last' = [NoLast EXCEPT !.op = "execute_chain",
                                    !.outcome = IF r.raised THEN "raised" ELSE "returned",
                                    !.exception = r.exception,
                                    !.response = StoredResponse(r.response),
                                    !.selection = selection,
                                    !.attempts = r.attempts,
                                    !.streak = StreakAfter(last.streak, r.attempts)]
    /\ UNCHANGED <<budget_configs, budget_usage, l1_cache, l2_client, l2_data, now>>

\* the registry alone: selections, executions, failures recorded on the
\* breaker of anthropic, and the clock
NextRegistry ==
    \/ \E level \in ComplexityLevels : Select(level)
    \/ \E text \in ChainTexts, selection \in Selections :
          \E failing \in SUBSET {Chain(selection)[i] : i \in 1..Len(Chain(selection))} :
             ExecuteChain(text, selection, failing)
    \/ RecordFailure("anthropic")
    \/ BreakerTick

SpecRegistry == InitBudget /\ [][NextRegistry]_vars

\* the prompts handed to the optimizer alone
OptimizedPrompts == UNION {[1..n -> Words] : n \in 0..MaxOptimized}

\* PromptOptimizer.optimise(prompt) called on its own
Optimise(prompt) ==
    \E r \in {optimise(prompt)} :
       /\ last' = [NoLast EXCEPT !.op = "optimise",
                                 !.request = [NoRequest EXCEPT !.prompt = prompt],
                                 !.outcome = IF r.raised THEN "raised" ELSE "returned",
                                 !.exception = r.exception, !.text = r.text]
       /\ UNCHANGED <<budget_configs, budget_usage, l1_cache, l2_client, l2_data,
                      circuit_breakers, metrics, now>>

\* PromptOptimizer.optimise called on the text the last call returned
OptimiseAgain ==
    /\ last.op \in {"optimise", "optimise_again"} /\ last.outcome = "returned"
    /\ \E r \in {optimise_text(last.text)} :
          last' = [NoLast EXCEPT !.op = "optimise_again", !.request = last.request,
                                !.outcome = IF r.raised THEN "raised" ELSE "returned",
                                !.exception = r.exception, !.text = r.text]
    /\ UNCHANGED <<budget_configs, budget_usage, l1_cache, l2_client, l2_data,
                   circuit_breakers, metrics, now>>

\* the optimizer alone
NextOptimizer ==
    \/ \E prompt \in OptimizedPrompts : Optimise(prompt)
    \/ OptimiseAgain

SpecOptimizer == InitBudget /\ [][NextOptimizer]_vars

\* the keys of the calls made on a MemoryCache alone
MemoryKeys ==
    {[words |-> <<w>>, dot |-> TRUE] : w \in Words} \cup {[words |-> <<>>, dot |-> TRUE]}

\* the keys held by the cache
KeysOf(cache) == {cache[i][1] : i \in 1..Len(cache)}

\* the keys of the list used that the cache still holds, in order
RECURSIVE StillHeld(_, _)
StillHeld(used, cache) ==
    IF used = <<>> THEN <<>>
    ELSE (IF Head(used) \in KeysOf(cache) THEN <<Head(used)>> ELSE <<>>)
            \o StillHeld(Tail(used), cache)

\* the list used after a use of key, over the cache the call leaves
UsedAfter(used, key, cache) ==
    StillHeld(SelectSeq(used, LAMBDA k : k # key) \o <<key>>, cache)

\* MemoryCache.get(key) on a MemoryCache(max_size=MemoryMaxSize)
MemoryGet(key) ==
    \E g \in {MemoryCacheGet(l1_cache, key, now)} :
       /\ l1_cache' = g.cache
       /\ last' = [NoLast EXCEPT !.op = "get", !.text = key, !.hit = g.found,
                                 !.used = IF g.found THEN UsedAfter(last.used, key, g.cache)
                                          ELSE StillHeld(last.used, g.cache)]
       /\ UNCHANGED <<budget_configs, budget_usage, l2_client, l2_data,
                      circuit_breakers, metrics, now>>

\* MemoryCache.set(key, entry) on that cache, the entry being that of the
\* response of provider p
MemorySet(key, p) ==
    \E c \in {MemoryCacheSetMax(l1_cache, key,
                                 CacheEntry(ProviderResponse(p, _select_model(p), key)),
                                 now, MemoryMaxSize)} :
       /\ l1_cache' = c
       /\ last' = [NoLast EXCEPT !.op = "set", !.text = key,
                                 !.evicted = KeysOf(l1_cache) \ KeysOf(c),
                                 !.used = UsedAfter(last.used, key, c)]
       /\ UNCHANGED <<budget_configs, budget_usage, l2_client, l2_data,
                      circuit_breakers, metrics, now>>

\* the cache.clear() of clear_all (line 415)
MemoryClear ==
    /\ l1_cache' = <<>>
    /\ last' = [NoLast EXCEPT !.op = "clear"]
    /\ UNCHANGED <<budget_configs, budget_usage, l2_client, l2_data,
                   circuit_breakers, metrics, now>>

\* the wall clock moves on by the TTL of tier 1 and a second
MemoryTick ==
    /\ now + L1MaxAge + 1 <= InitialTime + MaxTicks * (L1MaxAge + 1)
    /\ now' = now + L1MaxAge + 1
    /\ last' = [NoLast EXCEPT !.op = "tick", !.used = last.used]
    /\ UNCHANGED <<budget_configs, budget_usage, l1_cache, l2_client, l2_data,
                   circuit_breakers, metrics>>

\* a MemoryCache alone
NextMemory ==
    \/ \E key \in MemoryKeys : MemoryGet(key)
    \/ \E key \in MemoryKeys : MemorySet(key, "openai")
    \/ MemoryClear
    \/ MemoryTick

SpecMemory == InitBudget /\ [][NextMemory]_vars

\* the ledger after a completed record_usage(request, actual_cost)
RECURSIVE LedgerAfter(_, _, _, _)
LedgerAfter(ledger, hierarchy, i, actual_cost) ==
    IF i > Len(hierarchy) THEN ledger
    ELSE LedgerAfter([ledger EXCEPT ![hierarchy[i]] =
                        [sum |-> @.sum + actual_cost, count |-> @.count + 1]],
                     hierarchy, i + 1, actual_cost)

\* a coroutine of record_usage(request, actual_cost) is scheduled (by one of several
\* route_request coroutines at line 111, or by asyncio.gather); the event
\* loop has not run it yet
CallRecordUsage(id, request, actual_cost) ==
    /\ \A call \in last.inflight : call.id # id
    /\ id = 1 \/ \E call \in last.inflight : call.id = id - 1
    /\ Cardinality(last.inflight) + last.ledger[<<"user", request.user_id>>].count
          < MaxBurst
    /\ last' = [NoLast EXCEPT !.op = "call_record_usage", !.request = request,
                              !.actual_cost = actual_cost,
                              !.ledger = last.ledger,
                              !.inflight = last.inflight \cup
                                 {[id |-> id, request |-> request,
                                   actual_cost |-> actual_cost]}]
    /\ UNCHANGED <<budget_configs, budget_usage, l1_cache, l2_client, l2_data,
                   circuit_breakers, metrics, now>>

\* the event loop runs one of the calls in flight: record_usage has no
\* suspension point (the coroutines awaited at lines 273, 227 and 234 never
\* suspend), so the loop runs the call to its end before any other one
RunRecordUsage(call) ==
    /\ call \in last.inflight
    /\ budget_usage' = record_usage(budget_configs, budget_usage, call.request,
                                    call.actual_cost, now)
    /\ last' = [NoLast EXCEPT !.op = "run_record_usage", !.request = call.request,
                              !.outcome = "returned",
                              !.actual_cost = call.actual_cost,
                              !.inflight = last.inflight \ {call},
                              !.ledger = LedgerAfter(last.ledger,
                                                     _get_entity_hierarchy(call.request),
                                                     1, call.actual_cost)]
    /\ UNCHANGED <<budget_configs, l1_cache, l2_client, l2_data, circuit_breakers,
                   metrics, now>>

\* the clock moves on while calls are in flight; a new window starts the
\* ledger again
ConcurrentAdvance ==
    /\ now + ClockStep <= InitialTime + MaxAdvances * ClockStep
    /\ now' = now + ClockStep
    /\ last' = [NoLast EXCEPT !.op = "advance", !.inflight = last.inflight,
                              !.ledger = IF get_period_start(now + ClockStep)
                                            = get_period_start(now)
                                         THEN last.ledger ELSE NoLast.ledger]
    /\ UNCHANGED <<budget_configs, budget_usage, l1_cache, l2_client, l2_data,
                   circuit_breakers, metrics>>

\* the calls that may be in flight
RecordCalls ==
    [id : 1..MaxBurst, request : BudgetRequests \cap RouterRequests,
     actual_cost : 0..MaxCost]

\* the BudgetController under concurrent record_usage calls
NextConcurrent ==
    \/ \E call \in RecordCalls :
          CallRecordUsage(call.id, call.request, call.actual_cost)
    \/ \E call \in RecordCalls : RunRecordUsage(call)
    \/ ConcurrentAdvance

SpecConcurrent == InitBudget /\ [][NextConcurrent]_vars

\* the requests of a user, with a team or none
TeamRequests == BudgetRequests \cap RouterRequests

TeamKeys == {k \in BudgetKeys : k[1] # "company"}

\* the BudgetController called with any actual_cost a float can be, the
\* negative ones included, and asked for summaries
NextDebit ==
    \/ \E key \in TeamKeys, limit \in ConfigLimits, threshold \in ConfigThresholds :
          AddBudgetConfig(key, limit, threshold, FALSE)
    \/ \E request \in TeamRequests, estimated_cost \in 0..MaxEstimate :
          CheckAuthorization(request, estimated_cost)
    \/ \E request \in TeamRequests, actual_cost \in (-MaxCost)..MaxCost :
          RecordUsage(request, actual_cost)
    \/ \E key \in TeamKeys : GetBudgetSummary(key)
    \/ AdvanceClock

SpecDebit == InitBudget /\ [][NextDebit]_vars

\* the BudgetController with budgets of either rollover setting
NextWindow ==
    \/ \E key \in TeamKeys, limit \in ConfigLimits, threshold \in ConfigThresholds,
          rollover \in BOOLEAN :
          AddBudgetConfig(key, limit, threshold, rollover)
    \/ \E request \in TeamRequests, estimated_cost \in 0..MaxEstimate :
          CheckAuthorization(request, estimated_cost)
    \/ \E request \in TeamRequests, actual_cost \in 1..MaxCost :
          RecordUsage(request, actual_cost)
    \/ AdvanceClock

SpecWindow == InitBudget /\ [][NextWindow]_vars

\* the BudgetController under a burst: the admissions and the debits of up to
\* MaxBurst requests of a window interleave in any order
NextBurst ==
    \/ \E key \in TeamKeys, limit \in ConfigLimits, threshold \in ConfigThresholds :
          AddBudgetConfig(key, limit, threshold, FALSE)
    \/ \E request \in TeamRequests, estimated_cost \in 0..MaxEstimate :
          CheckAuthorization(request, estimated_cost)
    \/ \E request \in TeamRequests, actual_cost \in 1..MaxCost :
          RecordUsageUpTo(request, actual_cost, MaxBurst)
    \/ AdvanceClock

SpecBurst == InitBudget /\ [][NextBurst]_vars

-----------------------------------------------------------------------------
(* Notions used by the properties *)

\* the used_usd and the remaining_usd of a scope in the window that
\* holds time t: a scope without a record of that window has used nothing
EffUsed(usage, key, t) ==
    IF key \in DOMAIN usage /\ usage[key].period_start = get_period_start(t)
    THEN usage[key].used_usd ELSE 0

EffRemaining(usage, configs, key, t) ==
    IF key \in DOMAIN usage /\ usage[key].period_start = get_period_start(t)
    THEN usage[key].remaining_usd ELSE ConfigFor(configs, key).limit_usd

\* the used_usd and request_count a scope holds, a scope without a record
\* holding none
StoredUsed(usage, key) == IF key \in DOMAIN usage THEN usage[key].used_usd ELSE 0

StoredCount(usage, key) == IF key \in DOMAIN usage THEN usage[key].request_count ELSE 0

ScopeIndex(hierarchy, level) ==
    CHOOSE i \in 1..Len(hierarchy) : hierarchy[i][1] = level

\* projected usage of the i-th scope of the last request against its limit
Exceeds(usage, hierarchy, i, estimated_cost) ==
    EffUsed(usage, hierarchy[i], now) + estimated_cost
        > ConfigFor(budget_configs, hierarchy[i]).limit_usd

ReachesThreshold(usage, hierarchy, i, estimated_cost) ==
    (EffUsed(usage, hierarchy[i], now) + estimated_cost) * 100
        >= ConfigFor(budget_configs, hierarchy[i]).warning_threshold
             * ConfigFor(budget_configs, hierarchy[i]).limit_usd

LastHierarchy == _get_entity_hierarchy(last.request)

\* the scopes the last check_authorization evaluated: up to the one it names
\* when it denies or warns, all of them otherwise
LastEvaluated ==
    IF last.auth.status \in {"exceeded", "warning"}
    THEN ScopeIndex(LastHierarchy, last.auth.level)
    ELSE Len(LastHierarchy)

InTrace(call) == \E i \in 1..Len(last.trace) : last.trace[i] = call

Routed == last.op = "route_request"

Denied == last.auth.status = "exceeded"

-----------------------------------------------------------------------------
(* Properties *)

\* C1: a route_request call whose budget admission denies returns a response
\* with success=false whose error carries the denial reason, and makes no
\* cache lookup, cache store, provider selection, provider execution or
\* record_usage.
C1_DenialReturnsFailure ==
    (Routed /\ Denied) =>
        /\ last.outcome = "returned"
        /\ ~last.response.success
        /\ last.response.error = "Budget exceeded: Request would exceed "
                                   \o last.auth.level \o " budget limit"
        /\ ~InTrace("lookup") /\ ~InTrace("store") /\ ~InTrace("select")
        /\ ~InTrace("execute_chain") /\ ~InTrace("record_usage")

\* what a cache-hit call of route_request answers and leaves alone; Frame
\* says how the usage of a scope may differ after the call
CacheHitStep(Frame(_)) ==
    (last'.op = "route_request" /\ last'.hit) =>
        LET key == optimise(last'.request.prompt).text
            entry == l1_cache[IndexOfKey(l1_cache, key)][2]
            r == last'.response
        IN /\ IndexOfKey(l1_cache, key) # 0
           /\ last'.auth.approved
           /\ last'.outcome = "returned"
           /\ r.success /\ r.cache_hit /\ r.cache_level = "l1"
           /\ r.content = entry.value
           /\ r.prompt_tokens = entry.prompt_tokens
           /\ r.completion_tokens = entry.completion_tokens
           /\ r.total_tokens = entry.total_tokens
           /\ r.cost_usd = entry.cost_usd
           /\ r.model_used = entry.model_used
           /\ r.provider_used = entry.provider_used
           /\ \A i \in 1..Len(last'.trace) :
                 last'.trace[i] \notin {"select", "execute_chain", "record_usage"}
           /\ circuit_breakers' = circuit_breakers
           /\ \A k \in BudgetKeys : Frame(k)

UsageSame(k) ==
    /\ StoredUsed(budget_usage', k) = StoredUsed(budget_usage, k)
    /\ StoredCount(budget_usage', k) = StoredCount(budget_usage, k)

UsageSameOrReset(k) ==
    \/ UsageSame(k)
    \/ /\ k \in DOMAIN budget_usage
       /\ budget_usage[k].period_start # get_period_start(now)
       /\ StoredUsed(budget_usage', k) = 0
       /\ StoredCount(budget_usage', k) = 0

\* C2 as stated: an admitted route_request call whose cache lookup hits
\* returns success=true, cache_hit=true, the tier that hit and the content,
\* token counts, cost, model and provider of the stored entry; it selects and
\* executes no provider and calls no record_usage, and no scope's used_usd or
\* request_count changes.
C2_CacheHitUsageUntouched == [][CacheHitStep(UsageSame)]_vars

\* C2 as amended: the same, except that a scope of the request whose stored
\* window has ended has its used_usd and request_count reset to zero by the
\* admission check of that call; no scope's used_usd or request_count changes
\* in any other way.
C2_CacheHitNoDebit == [][CacheHitStep(UsageSameOrReset)]_vars

C2_Witness ==
    /\ Routed /\ last.hit /\ last.outcome = "returned"
    /\ last.response.cache_hit /\ last.response.cost_usd = ProviderCost
    /\ last.auth.status = "warning"

\* C3: an admitted route_request call that misses the cache while a provider
\* is eligible returns success=true with cache_hit=false and the provider's
\* content, after exactly one record_usage followed by exactly one store, both
\* after the provider call.
C3_MissReturnsProviderResponse ==
    (/\ Routed /\ last.auth.approved /\ ~last.auth.raised
     /\ InTrace("lookup") /\ ~last.hit
     /\ \E p \in Providers : circuit_breakers[p].state = "closed") =>
        /\ last.outcome = "returned"
        /\ last.response.success /\ ~last.response.cache_hit
        /\ last.response.content # EmptyContent
        /\ Len(last.trace) >= 3
        /\ SubSeq(last.trace, Len(last.trace) - 2, Len(last.trace))
             = <<"execute_chain", "record_usage", "store">>

\* C4: an admitted route_request call that misses the cache and ends without
\* the response of any provider returns success=false with the cause; it
\* debits no scope and stores nothing in the cache.
C4_NoProviderReturnsFailure ==
    (/\ Routed /\ last.auth.approved /\ ~last.auth.raised
     /\ InTrace("lookup") /\ ~last.hit
     /\ last.response.content = EmptyContent) =>
        /\ last.outcome = "returned"
        /\ ~last.response.success /\ last.response.error # ""
        /\ ~InTrace("record_usage") /\ ~InTrace("store")

\* C5: route_request never raises: every call returns an AIResponse, and a
\* call in which a stage failed returns success=false with an error.
C5_NeverRaises ==
    Routed =>
        /\ last.outcome = "returned"
        /\ (last.response.success \/ last.response.error # "")

\* C6: route_request for a prompt of fewer than four characters (token
\* estimate 0, the empty prompt included) returns an unsuccessful response,
\* does not raise and debits nothing.
C6_ShortPromptReturnsFailure ==
    (Routed /\ PromptLen(last.request.prompt) < 4) =>
        /\ last.outcome = "returned"
        /\ ~last.response.success /\ last.response.error # ""
        /\ ~InTrace("record_usage")

\* C7: check_authorization returns approved=true only if every scope of the
\* request (user, and team and company when given) has
\* used_usd + estimated_cost <= limit_usd; a warning of an earlier scope does
\* not keep a later scope from denying.
C7_ApprovedOnlyIfEveryScopePasses ==
    (/\ last.op = "check_authorization"
     /\ last.outcome = "returned" /\ last.auth.approved) =>
        \A i \in 1..Len(LastHierarchy) :
            ~Exceeds(budget_usage, LastHierarchy, i, last.auth.estimated_cost)

\* C8: a check_authorization that denies answers approved=false and status
\* exceeded, names the first scope in the order user, team, company whose
\* used_usd + estimated_cost is above its limit, reports that scope's
\* current_usage and remaining_budget as they were before the call, not
\* reduced by the estimated cost, and does not evaluate the scopes after it.
C8_DenialStep ==
    (/\ last'.op = "check_authorization"
     /\ last'.outcome = "returned" /\ ~last'.auth.approved) =>
        LET a == last'.auth
            h == _get_entity_hierarchy(last'.request)
            k == ScopeIndex(h, a.level)
        IN /\ a.status = "exceeded"
           /\ a.entity_id = h[k][2]
           /\ Exceeds(budget_usage, h, k, a.estimated_cost)
           /\ \A j \in 1..(k - 1) : ~Exceeds(budget_usage, h, j, a.estimated_cost)
           /\ a.current_usage = EffUsed(budget_usage, h[k], now)
           /\ a.remaining_budget = EffRemaining(budget_usage, budget_configs, h[k], now)
           /\ \A j \in (k + 1)..Len(h) :
                 /\ (h[j] \in DOMAIN budget_usage') = (h[j] \in DOMAIN budget_usage)
                 /\ h[j] \in DOMAIN budget_usage => budget_usage'[h[j]] = budget_usage[h[j]]

C8_DenialNamesFirstExceedingScope == [][C8_DenialStep]_vars

C8_Witness ==
    /\ last.op = "check_authorization" /\ Denied
    /\ last.auth.level = "team" /\ last.request.company_id # None
    /\ last.auth.current_usage > 0 /\ last.auth.estimated_cost > 0
    /\ last.auth.remaining_budget > 0

\* C9: the denial rule is strict: a scope that check_authorization evaluates
\* denies exactly when its used_usd + estimated_cost > limit_usd; a scope whose
\* projected usage equals its limit admits the request.
C9_StrictDenial ==
    (last.op = "check_authorization") =>
        \A j \in 1..LastEvaluated :
            LET key == LastHierarchy[j]
                projected == budget_usage[key].used_usd + last.auth.estimated_cost
                limit == ConfigFor(budget_configs, key).limit_usd
                denies == j = LastEvaluated /\ Denied /\ ~last.auth.approved
            IN /\ (projected > limit) <=> denies
               /\ (projected = limit /\ j = LastEvaluated) =>
                     (last.auth.approved /\ last.outcome = "returned")

C9_Witness ==
    /\ last.op = "check_authorization" /\ last.outcome = "returned"
    /\ last.auth.approved /\ last.auth.estimated_cost > 0
    /\ last.auth.current_usage > 0
    /\ last.auth.current_usage + last.auth.estimated_cost = last.auth.budget_limit

\* C10: for a scope whose projected usage is within its limit the check
\* answers a warning (approved=true, status warning) exactly when
\* (used_usd + estimated_cost) / limit_usd >= warning_threshold, at exactly
\* the threshold too, and the warning names the first scope in hierarchy
\* order that reached its threshold.
C10_WarningAtThreshold ==
    (last.op = "check_authorization") =>
        LET h == LastHierarchy
            est == last.auth.estimated_cost
            warns == /\ last.outcome = "returned" /\ last.auth.approved
                     /\ last.auth.status = "warning"
        IN /\ \A j \in 1..LastEvaluated :
                 ~Exceeds(budget_usage, h, j, est) =>
                    (ReachesThreshold(budget_usage, h, j, est)
                       <=> (warns /\ j = LastEvaluated))
           /\ warns =>
                 /\ last.auth.entity_id = h[LastEvaluated][2]
                 /\ \A j \in 1..Len(h) :
                       ReachesThreshold(budget_usage, h, j, est) => j >= LastEvaluated

C10_Witness ==
    /\ last.op = "check_authorization" /\ last.outcome = "returned"
    /\ last.auth.status = "warning" /\ last.auth.level = "team"
    /\ last.auth.current_usage > 0
    /\ (last.auth.current_usage + last.auth.estimated_cost) * 100
         = ConfigFor(budget_configs, <<"team", last.request.team_id>>).warning_threshold
             * last.auth.budget_limit

\* C11: when every scope of the request has its projected usage below its
\* limit and below its warning threshold, check_authorization returns (it does
\* not raise) an authorization with approved=true and status approved.
C11_CleanApprovalReturns ==
    (/\ last.op = "check_authorization"
     /\ \A i \in 1..Len(LastHierarchy) :
           /\ ~Exceeds(budget_usage, LastHierarchy, i, last.auth.estimated_cost)
           /\ ~ReachesThreshold(budget_usage, LastHierarchy, i, last.auth.estimated_cost)) =>
        /\ last.outcome = "returned"
        /\ last.auth.approved /\ last.auth.status = "approved"

\* what one step may do to the used_usd of scope k: it does not decrease
\* while the record stays in its window, and the record moves to another
\* window only when its period_start is not the start of the current one
UsedMonotone(k) ==
    (k \in DOMAIN budget_usage) =>
        /\ k \in DOMAIN budget_usage'
        /\ (budget_usage'[k].period_start = budget_usage[k].period_start) =>
              budget_usage'[k].used_usd >= budget_usage[k].used_usd
        /\ (budget_usage'[k].period_start # budget_usage[k].period_start) =>
              /\ budget_usage[k].period_start # get_period_start(now)
              /\ budget_usage'[k].period_start = get_period_start(now)

\* C12: for every scope, across check_authorization, record_usage and summary
\* calls, used_usd never decreases within a window; it is reset only when the
\* start of the current window differs from the stored period_start.
C12_UsedMonotoneInWindow == [][\A k \in BudgetKeys : UsedMonotone(k)]_vars

\* C13: record_usage rejects a negative actual_cost: the call reports an error
\* and leaves the usage of every scope as it was, so that used_usd >= 0 in
\* every reachable state.
C13_NegativeCostStep ==
    /\ (last'.op = "record_usage" /\ last'.actual_cost < 0) =>
          /\ last'.outcome = "raised"
          /\ \A k \in BudgetKeys :
                /\ EffUsed(budget_usage', k, now) = EffUsed(budget_usage, k, now)
                /\ EffRemaining(budget_usage', budget_configs, k, now)
                     = EffRemaining(budget_usage, budget_configs, k, now)
    /\ \A k \in DOMAIN budget_usage' : budget_usage'[k].used_usd >= 0

C13_NegativeCostRejected == [][C13_NegativeCostStep]_vars

\* the scopes whose usage the last call looked up
TouchedScopes ==
    IF last.op = "record_usage"
    THEN {LastHierarchy[i] : i \in 1..Len(LastHierarchy)}
    ELSE IF last.op = "check_authorization"
    THEN {LastHierarchy[i] : i \in 1..LastEvaluated}
    ELSE {}

\* scope k has a usage record of a window that has ended
WindowEnded(k) ==
    /\ k \in DOMAIN budget_usage
    /\ now >= budget_usage[k].period_start + PeriodSeconds

\* what the last call debits
Debit == IF last.op = "record_usage" THEN last.actual_cost ELSE 0

\* C14: when a lookup finds usage of an earlier window, the usage is rolled
\* before any arithmetic: carried forward into the new window if the config of
\* the scope has rollover=true, reset to zero only if it has rollover=false.
C14_RollStep ==
    \A k \in TouchedScopes' :
        WindowEnded(k) =>
            budget_usage'[k].used_usd =
                (IF ConfigFor(budget_configs, k).rollover
                 THEN budget_usage[k].used_usd ELSE 0) + Debit'

C14_RolloverCarriesUsage == [][C14_RollStep]_vars

\* C15: with rollover=false, a check_authorization or record_usage at or after
\* the end of the stored window works on a fresh window with used_usd = 0 and
\* request_count = 0: the usage of the earlier window causes no denial and no
\* warning in the new one.
C15_FreshWindowStep ==
    \A k \in TouchedScopes' :
        (WindowEnded(k) /\ ~ConfigFor(budget_configs, k).rollover) =>
            LET a == last'.auth
                config == ConfigFor(budget_configs, k)
            IN /\ budget_usage'[k].used_usd = Debit'
               /\ budget_usage'[k].request_count
                    = (IF last'.op = "record_usage" THEN 1 ELSE 0)
               /\ (last'.op = "check_authorization" /\ a.level = k[1]
                     /\ a.status \in {"exceeded", "warning"}) =>
                     /\ a.current_usage = 0
                     /\ (a.status = "exceeded") =>
                           a.estimated_cost > config.limit_usd
                     /\ (a.status = "warning") =>
                           a.estimated_cost * 100
                              >= config.warning_threshold * config.limit_usd

C15_FreshWindowAtPeriodEnd == [][C15_FreshWindowStep]_vars

C15_Witness ==
    /\ last.op = "check_authorization" /\ last.outcome = "returned"
    /\ now = PeriodSeconds
    /\ \E e \in last.rolled : e[1] = <<"user", last.request.user_id>> /\ e[2] > 0
    /\ ~ConfigFor(budget_configs, <<"user", last.request.user_id>>).rollover
    /\ last.auth.level = "user" /\ last.auth.status = "warning"
    /\ last.auth.current_usage = 0

\* C16: once used_usd > limit_usd for a scope, every later
\* check_authorization of the same window for a request that includes the
\* scope is denied, whatever its estimated cost.
C16_OverrunIsDenied ==
    (/\ last.op = "check_authorization"
     /\ \E i \in 1..Len(LastHierarchy) :
           EffUsed(budget_usage, LastHierarchy[i], now)
              > ConfigFor(budget_configs, LastHierarchy[i]).limit_usd) =>
        /\ last.outcome = "returned"
        /\ ~last.auth.approved /\ Denied

\* C17: admission is conservative: when check_authorization approves a
\* request for the estimated cost c and the next budget call debits the same
\* request with an actual cost a <= c, every scope of the request has
\* used_usd <= limit_usd after the debit.
C17_ConservativeStep ==
    (/\ last.op = "check_authorization" /\ last.outcome = "returned"
     /\ last.auth.approved
     /\ last'.op = "record_usage" /\ last'.request = last.request
     /\ last'.actual_cost <= last.auth.estimated_cost) =>
        \A i \in 1..Len(LastHierarchy) :
            budget_usage'[LastHierarchy[i]].used_usd
               <= ConfigFor(budget_configs, LastHierarchy[i]).limit_usd

C17_AdmissionIsConservative == [][C17_ConservativeStep]_vars

\* the key of the call on the CacheManager that last records
CacheKey(l) == optimise(l.request.prompt).text

\* two responses carry the same content, tokens, cost, model and provider
SameAnswer(a, b) ==
    /\ a.content = b.content
    /\ a.prompt_tokens = b.prompt_tokens
    /\ a.completion_tokens = b.completion_tokens
    /\ a.total_tokens = b.total_tokens
    /\ a.cost_usd = b.cost_usd
    /\ a.model_used = b.model_used
    /\ a.provider_used = b.provider_used

\* store leaves under the key, written now, an entry that carries the response
C18_StoreStep ==
    last'.op = "store" =>
        \E i \in {IndexOfKey(l1_cache', CacheKey(last'))} :
           /\ i # 0
           /\ l1_cache'[i][3] = now
           /\ \E e \in {CachedResponse(l1_cache'[i][2], "l1")} :
                 SameAnswer(e, last'.response)

\* a step that is not a store keeps the entries written earlier as they were
C18_KeepStep ==
    last'.op # "store" =>
        \A i \in 1..Len(l1_cache), j \in 1..Len(l1_cache') :
            (l1_cache[i][1] = l1_cache'[j][1] /\ l1_cache[i][3] = l1_cache'[j][3]) =>
                l1_cache[i][2] = l1_cache'[j][2]

\* lookup of a key written to tier 1 no longer than the TTL of tier 1 ago
\* finds what the entry carries
C18_LookupStep ==
    last'.op = "lookup" =>
        \E i \in {IndexOfKey(l1_cache, CacheKey(last'))} :
           (i # 0 /\ now - l1_cache[i][3] <= L1MaxAge) =>
               /\ last'.hit
               /\ \E e \in {CachedResponse(l1_cache[i][2], "l1")} :
                     SameAnswer(last'.response, e)

\* C18: after store(p, r), a lookup(p) made within the TTL of tier 1, the
\* entry not evicted, finds an entry whose content, token counts, cost, model
\* and provider are those of r.
C18_StoreThenLookup == [][C18_StoreStep /\ C18_KeepStep /\ C18_LookupStep]_vars

\* a lookup, exactly the TTL of tier 1 after the store of another provider's
\* response than the one a Redis client wrote, answers from tier 1
C18_Witness ==
    /\ last.op = "lookup" /\ last.hit /\ last.response.cache_level = "l1"
    /\ IndexOfKey(l1_cache, CacheKey(last)) # 0
    /\ now - l1_cache[IndexOfKey(l1_cache, CacheKey(last))][3] = L1MaxAge
    /\ l1_cache[IndexOfKey(l1_cache, CacheKey(last))][2].level = "l3"
    /\ SameAnswer(last.response,
                  CachedResponse(l1_cache[IndexOfKey(l1_cache, CacheKey(last))][2], "l1"))

\* the tiers a lookup queries, the tier that answers, and what an answer of
\* tier 2 leaves in tier 1
C19_LookupStep ==
    last'.op = "lookup" =>
        \E key \in {CacheKey(last')} :
        \E i \in {IndexOfKey(l1_cache, key)} :
        \E live1 \in {i # 0 /\ now <= l1_cache[IF i = 0 THEN 1 ELSE i][2].expires_at} :
        \E has2 \in {l2_client /\ key \in DOMAIN l2_data /\ l2_data[key] # Unparsable} :
           /\ live1 =>
                 /\ last'.hit /\ last'.response.cache_level = "l1"
                 /\ last'.trace = <<"l1">>
                 /\ last'.response.content = l1_cache[i][2].value
           /\ (~live1 /\ has2) =>
                 /\ last'.hit /\ last'.response.cache_level = "l2"
                 /\ last'.trace = <<"l1", "l2">>
                 /\ last'.response.content = l2_data[key].value
                 /\ \E nx \in {lookup(l1_cache', l2_client', l2_data', key, now')} :
                       /\ nx.found /\ nx.level = "l1" /\ nx.tiers = <<"l1">>
                       /\ nx.entry.value = last'.response.content
           /\ (~live1 /\ ~has2) =>
                 /\ ~last'.hit
                 /\ last'.trace = <<"l1", "l2", "l3">>

\* C19: lookup queries the tiers in the order T1, T2, T3 and stops at the
\* first hit; a hit at a tier after T1 writes the entry to every faster tier
\* before lookup returns, so that a lookup of the same key that follows at
\* once hits at T1 with the same content.
C19_LookupOrderAndPromotion == [][C19_LookupStep]_vars

\* a lookup answered by tier 2 has left the entry of tier 2 in tier 1, beside
\* the entry of another key
C19_Witness ==
    /\ last.op = "lookup" /\ last.hit /\ last.response.cache_level = "l2"
    /\ last.trace = <<"l1", "l2">>
    /\ IndexOfKey(l1_cache, CacheKey(last)) # 0
    /\ l1_cache[IndexOfKey(l1_cache, CacheKey(last))][3] = now
    /\ l1_cache[IndexOfKey(l1_cache, CacheKey(last))][2].level = "l1"
    /\ l1_cache[IndexOfKey(l1_cache, CacheKey(last))][2].value
          = l2_data[CacheKey(last)].value
    /\ Len(l1_cache) = 2

\* C20: each tier applies its own TTL: an entry written to T1, by store or by
\* promotion, is never returned from T1 by a lookup made more than 300 s after
\* that write, whatever was written to T2 and T3 for the same entry in the
\* same operation.
C20_Tier1StepTTL ==
    (last'.op = "lookup" /\ last'.hit /\ last'.response.cache_level = "l1") =>
        \E i \in {IndexOfKey(l1_cache, CacheKey(last'))} :
           i # 0 /\ now - l1_cache[i][3] <= L1MaxAge

C20_Tier1AppliesOwnTTL == [][C20_Tier1StepTTL]_vars

\* store returns a result that reports success; a lookup returns, and when
\* tier 1 has no live entry and tier 2 has no client or fails to give an
\* entry, it goes on to tier 3 and answers with a miss
C21_BackendStep ==
    /\ last'.op = "store" =>
          /\ last'.outcome = "returned"
          /\ last'.stored.success /\ last'.stored.level = "l1"
    /\ last'.op = "lookup" =>
          \E key \in {CacheKey(last')} :
          \E i \in {IndexOfKey(l1_cache, key)} :
             /\ last'.outcome = "returned"
             /\ (/\ i = 0 \/ now > l1_cache[IF i = 0 THEN 1 ELSE i][2].expires_at
                 /\ \/ ~l2_client
                    \/ key \in DOMAIN l2_data /\ l2_data[key] = Unparsable) =>
                    /\ ~last'.hit
                    /\ last'.trace = <<"l1", "l2", "l3">>

\* C21: failures of the T2/T3 backends are never visible to the caller: when
\* T2 is unavailable or its get/set raises, lookup treats that tier as a miss
\* and continues with the next tier, store still reports success as long as
\* one tier accepted the entry, and neither lookup nor store raises.
C21_BackendFailuresInvisible == [][C21_BackendStep]_vars

\* a lookup that met unparsable data in tier 2 has answered with a miss
C21_Witness ==
    /\ last.op = "lookup" /\ last.outcome = "returned" /\ ~last.hit
    /\ last.trace = <<"l1", "l2", "l3">>
    /\ l2_client /\ CacheKey(last) \in DOMAIN l2_data
    /\ l2_data[CacheKey(last)] = Unparsable

\* the breaker the call recorded in l is about, in the dict of breakers bs
BreakerOf(bs, l) == bs[l.provider]

\* record_failure counts and stamps, and opens at the threshold; a closed
\* breaker left below the threshold is left closed
C29_FailureStep ==
    /\ last'.op = "record_failure" =>
          /\ BreakerOf(circuit_breakers', last').failure_count
                = BreakerOf(circuit_breakers, last').failure_count + 1
          /\ BreakerOf(circuit_breakers', last').last_failure_time = now
          /\ BreakerOf(circuit_breakers', last').failure_count
                >= failure_threshold(last'.provider) =>
                   BreakerOf(circuit_breakers', last').state = "open"
    /\ \A p \in Providers :
          (/\ circuit_breakers[p].state = "closed"
           /\ circuit_breakers'[p].failure_count < failure_threshold(p)) =>
              circuit_breakers'[p].state = "closed"

\* C29: record_failure always increments failure_count by one and sets
\* last_failure_time, and moves the breaker to open as soon as failure_count
\* reaches failure_threshold; a closed breaker with failure_count below the
\* threshold stays closed.
C29_FailureCountsAndOpens == [][C29_FailureStep]_vars

\* the failure that reached the threshold has opened the breaker
C29_Witness ==
    /\ last.op = "record_failure"
    /\ BreakerOf(circuit_breakers, last).state = "open"
    /\ BreakerOf(circuit_breakers, last).failure_count = failure_threshold(last.provider)
    /\ BreakerOf(circuit_breakers, last).last_failure_time = now

\* C30: record_success, called in any breaker state (closed, open or
\* half-open), sets failure_count to 0 and leaves the breaker closed.
C30_SuccessResets ==
    last.op = "record_success" =>
        /\ BreakerOf(circuit_breakers, last).failure_count = 0
        /\ BreakerOf(circuit_breakers, last).state = "closed"

\* C22: a half-open breaker admits one request as the probe: once can_execute
\* has admitted the probe, further can_execute queries are refused until
\* record_success or record_failure resolves the probe.  (A breaker is
\* half-open exactly from the query that admitted the probe until the
\* record_success or record_failure that follows.)
C22_ProbeStep ==
    (/\ last'.op = "can_execute"
     /\ BreakerOf(circuit_breakers, last').state = "half-open") => ~last'.answer

C22_HalfOpenAdmitsOneProbe == [][C22_ProbeStep]_vars

\* the providers of the attempts a, in order
RECURSIVE Attempted(_)
Attempted(a) == IF a = <<>> THEN <<>> ELSE <<Head(a)[1]>> \o Attempted(Tail(a))

\* an execute_chain: the attempts follow the chain from the primary on, one
\* per provider; it returns the response of the provider of the last
\* attempt, the only one that succeeded, and the providers after it are left
\* as they were; it raises after an attempt on every provider of the chain,
\* none of which succeeded
C25_ChainStep ==
    last'.op = "execute_chain" =>
        \E chain \in {Chain(last'.selection)} :
        \E n \in {Len(last'.attempts)} :
           /\ n >= 1 /\ n <= Len(chain)
           /\ Attempted(last'.attempts) = SubSeq(chain, 1, n)
           /\ \A i \in 1..(n - 1) : last'.attempts[i][2] \in {"failed", "blocked"}
           /\ \A i \in (n + 1)..Len(chain) :
                 /\ metrics'[chain[i]] = metrics[chain[i]]
                 /\ circuit_breakers'[chain[i]] = circuit_breakers[chain[i]]
           /\ \A i \in 1..n :
                 (last'.attempts[i][2] = "blocked") =
                    ~can_execute(circuit_breakers[chain[i]], chain[i], now).ok
           /\ \/ /\ last'.outcome = "returned"
                 /\ last'.attempts[n][2] = "success"
                 /\ last'.response.provider_used = chain[n]
                 /\ last'.response.success
              \/ /\ last'.outcome = "raised"
                 /\ last'.exception = "All providers failed"
                 /\ n = Len(chain)
                 /\ last'.attempts[n][2] \in {"failed", "blocked"}

\* C25: execute_chain tries the primary provider and then each fallback in
\* list order, each at most once, and returns the response of the first
\* provider that succeeds without attempting any later provider; it fails
\* with the all-providers-failed error only after every provider in the
\* chain has failed or been blocked by its breaker.
C25_ChainInOrder == [][C25_ChainStep]_vars

\* a chain of three whose primary was blocked by its breaker, whose first
\* fallback failed and whose second fallback answered
C25_Witness ==
    /\ last.op = "execute_chain" /\ last.outcome = "returned"
    /\ Len(last.attempts) = 3
    /\ last.attempts[1][2] = "blocked" /\ last.attempts[2][2] = "failed"
    /\ last.attempts[3][2] = "success"
    /\ last.response.provider_used = last.selection.fallback_providers[2]

\* the breaker b of p is open and its timeout has not elapsed at t
OpenAndWaiting(b, p, t) ==
    /\ b.state = "open"
    /\ b.last_failure_time = -1 \/ t - b.last_failure_time <= timeout_seconds(p)

\* the providers that select puts into the lists of a selection are
\* registered, and none of them has a breaker that is open: a breaker open
\* with its timeout running keeps its provider out
C23_SelectStep ==
    last'.op = "select" =>
        /\ last'.available \subseteq Providers
        /\ \A p \in last'.available :
              /\ ~OpenAndWaiting(circuit_breakers[p], p, now)
              /\ circuit_breakers'[p].state # "open"
        /\ \A p \in Providers :
              OpenAndWaiting(circuit_breakers[p], p, now) => p \notin last'.available

C24_SelectReturnsBest ==
    (last.op = "select" /\ last.available # {}) =>
        /\ last.outcome = "returned"
        /\ last.selection.selected_provider \in last.available

\* C27: for every successful completion, whatever the prompt length, the
\* response satisfies total_tokens = prompt_tokens + completion_tokens.
C27_TokenTotals ==
    (last.op = "execute_chain" /\ last.outcome = "returned") =>
        last.response.total_tokens
           = last.response.prompt_tokens + last.response.completion_tokens

\* C26: replaying a request: when a request was admitted, missed the cache
\* with a provider available (so that it completes through a provider) and
\* the same request is routed again at once, within the TTL of tier 1, the
\* second response has cache_hit=true and cache_level "l1", and every scope's
\* used_usd and request_count are as the first call left them.
C26_ReplayHitsTier1 ==
    (/\ Routed /\ last.auth.approved /\ ~last.auth.raised
     /\ InTrace("lookup") /\ ~last.hit
     /\ \E p \in Providers : circuit_breakers[p].state = "closed") =>
        \E again \in {route_request(budget_configs, budget_usage, l1_cache, l2_client,
                                    l2_data, circuit_breakers, last.request, now)} :
           /\ again.outcome = "returned"
           /\ again.hit /\ again.response.cache_hit
           /\ again.response.cache_level = "l1"
           /\ \A k \in BudgetKeys :
                 /\ StoredUsed(again.usage, k) = StoredUsed(budget_usage, k)
                 /\ StoredCount(again.usage, k) = StoredCount(budget_usage, k)

\* C28: the prompt optimizer is idempotent: for every prompt p on which it
\* returns, optimise(optimise(p)) = optimise(p).
C28_OptimiseStep ==
    (/\ last.op = "optimise" /\ last.outcome = "returned"
     /\ last'.op = "optimise_again") =>
        /\ last'.outcome = "returned"
        /\ last'.text = last.text

C28_OptimiseIdempotent == [][C28_OptimiseStep]_vars

\* a breaker leaves closed for open only on a failure that completes
\* failure_threshold failures in a row; a failure recorded on a closed
\* breaker makes failure_count the length of the row of failures
C31_ConsecutiveStep ==
    \A p \in Providers :
       /\ (/\ circuit_breakers[p].state = "closed"
           /\ circuit_breakers'[p].state = "open") =>
              /\ last'.op = "record_failure" /\ last'.provider = p
              /\ last'.streak[p] >= failure_threshold(p)
       /\ (/\ last'.op = "record_failure" /\ last'.provider = p
           /\ circuit_breakers[p].state = "closed") =>
              circuit_breakers'[p].failure_count = last'.streak[p]

\* C31: a closed breaker counts consecutive failures only: it leaves closed
\* for open only when the most recent failure_threshold outcomes were all
\* failures with no success in between; failure_count grows by one per
\* failure until a success resets it or the threshold is reached.
C31_CountsConsecutiveFailures == [][C31_ConsecutiveStep]_vars

\* the seconds since the last failure recorded on the breaker b
Elapsed(b, t) == t - b.last_failure_time

\* a can_execute on an open breaker refuses before the timeout and admits,
\* moving to half-open, from the timeout on; nothing else takes a breaker
\* out of open
C32_OpenStep ==
    /\ (/\ last'.op = "can_execute"
        /\ BreakerOf(circuit_breakers, last').state = "open") =>
           IF Elapsed(BreakerOf(circuit_breakers, last'), now)
                 < timeout_seconds(last'.provider)
           THEN /\ ~last'.answer
                /\ BreakerOf(circuit_breakers', last').state = "open"
           ELSE /\ last'.answer
                /\ BreakerOf(circuit_breakers', last').state = "half-open"
    /\ \A p \in Providers :
          (/\ circuit_breakers[p].state = "open"
           /\ circuit_breakers'[p].state # "open") =>
              /\ last'.op = "can_execute" /\ last'.provider = p
              /\ Elapsed(circuit_breakers[p], now) >= timeout_seconds(p)

\* C32: an open breaker refuses can_execute while now - last_failure_time is
\* below open_timeout, and on the first can_execute query with
\* now - last_failure_time >= open_timeout (exactly equal included) it moves
\* to half-open and admits the request; it never leaves open in another way.
C32_OpenUntilTimeout == [][C32_OpenStep]_vars

\* the probe of a half-open breaker: its success closes the breaker with
\* failure_count 0, its failure opens it again with last_failure_time the
\* time of the failure; and an open breaker refuses before its timeout has
\* elapsed since last_failure_time
C33_ProbeOutcomeStep ==
    /\ (/\ last'.op = "record_success"
        /\ BreakerOf(circuit_breakers, last').state = "half-open") =>
           /\ BreakerOf(circuit_breakers', last').state = "closed"
           /\ BreakerOf(circuit_breakers', last').failure_count = 0
    /\ (/\ last'.op = "record_failure"
        /\ BreakerOf(circuit_breakers, last').state = "half-open") =>
           /\ BreakerOf(circuit_breakers', last').state = "open"
           /\ BreakerOf(circuit_breakers', last').last_failure_time = now
    /\ (/\ last'.op = "can_execute"
        /\ BreakerOf(circuit_breakers, last').state = "open"
        /\ Elapsed(BreakerOf(circuit_breakers, last'), now)
              < timeout_seconds(last'.provider)) =>
           /\ ~last'.answer
           /\ BreakerOf(circuit_breakers', last').state = "open"

\* C33: from half-open, a probe success moves the breaker to closed with
\* failure_count reset to 0, and a probe failure moves it back to open with
\* last_failure_time set to the time of that failure, so that a full
\* open_timeout must elapse again before the next probe.
C33_HalfOpenTransitions == [][C33_ProbeOutcomeStep]_vars

\* the probe of a half-open breaker has succeeded and the breaker is closed
\* again with no failure counted
C33_Witness ==
    /\ last.op = "record_success" /\ last.was = "half-open"
    /\ BreakerOf(circuit_breakers, last).state = "closed"
    /\ BreakerOf(circuit_breakers, last).failure_count = 0

\* the score of the provider p when the select recorded in last scored it
ScoreAtSelect(p) ==
    _calculate_provider_score(p, last.level, metrics[p], circuit_breakers[p])

\* the members of the list s
Members(s) == {s[i] : i \in 1..Len(s)}

\* C34: in every selection, fallback_providers contains exactly the
\* candidates other than the selected one, each once, in descending score
\* order, and alternative_providers is the first two of them (fewer when
\* fewer exist); the selected provider never appears in either list.
C34_FallbacksInScoreOrder ==
    (last.op = "select" /\ last.available # {}) =>
        LET fallbacks == last.selection.fallback_providers
            alternatives == last.selection.alternative_providers
            selected == last.selection.selected_provider
        IN /\ Members(fallbacks) = last.available \ {selected}
           /\ Len(fallbacks) = Cardinality(last.available) - 1
           /\ \A i, j \in 1..Len(fallbacks) :
                 i < j => ScoreAtSelect(fallbacks[i]) >= ScoreAtSelect(fallbacks[j])
           /\ alternatives
                 = SubSeq(fallbacks, 1, IF Len(fallbacks) < 2 THEN Len(fallbacks) ELSE 2)
           /\ selected \notin Members(fallbacks) \cup Members(alternatives)

\* a select over three candidates that put the provider registered last
\* first and left two fallbacks that differ in score
C34_Witness ==
    /\ last.op = "select" /\ Cardinality(last.available) = 3
    /\ last.selection.selected_provider = "groq"
    /\ last.selection.fallback_providers = <<"openai", "anthropic">>
    /\ last.selection.alternative_providers = <<"openai", "anthropic">>
    /\ ScoreAtSelect("openai") > ScoreAtSelect("anthropic")

\* an execute_chain leaves the breaker of a provider it found refusing as it
\* was, and counts one failure, at the time of the call, on the breaker of a
\* provider whose call failed
C35_AttemptStep ==
    last'.op = "execute_chain" =>
        \A i \in 1..Len(last'.attempts) :
           LET p == last'.attempts[i][1]
               result == last'.attempts[i][2]
           IN /\ result = "blocked" =>
                    /\ ~can_execute(circuit_breakers[p], p, now).ok
                    /\ circuit_breakers'[p] = circuit_breakers[p]
              /\ result = "failed" =>
                    /\ circuit_breakers'[p].failure_count
                          = circuit_breakers[p].failure_count + 1
                    /\ circuit_breakers'[p].last_failure_time = now

\* C35: in execute_chain a provider whose breaker refuses (can_execute is
\* false) is skipped: no call is made to it and its breaker's failure_count
\* and last_failure_time are unchanged; a provider whose call fails has
\* exactly one failure recorded on its breaker before the chain advances.
C35_BlockedSkippedFailedCountedOnce == [][C35_AttemptStep]_vars

\* a chain that found the breaker of anthropic refusing and went on to
\* openai, whose call failed, and then to groq
C35_Witness ==
    /\ last.op = "execute_chain"
    /\ Len(last.attempts) = 3
    /\ last.attempts[1] = <<"anthropic", "blocked">>
    /\ last.attempts[2] = <<"openai", "failed">>
    /\ last.attempts[3][1] = "groq"
    /\ circuit_breakers["anthropic"].state = "open"
    /\ circuit_breakers["anthropic"].failure_count = failure_threshold("anthropic")
    /\ circuit_breakers["openai"].failure_count = 1
    /\ circuit_breakers["openai"].last_failure_time = now

\* how many of the attempts a were made against the provider p with one of
\* the results
RECURSIVE AttemptsOn(_, _, _)
AttemptsOn(a, p, results) ==
    IF a = <<>> THEN 0
    ELSE (IF Head(a)[1] = p /\ Head(a)[2] \in results THEN 1 ELSE 0)
            + AttemptsOn(Tail(a), p, results)

\* an execute_chain adds to the metrics of each provider one request per
\* attempt made against it (a provider found refusing counted or not), the
\* requests are the successful and the failed ones, and cost and tokens
\* grow by those of the successful attempts
C36_MetricsStep ==
    last'.op = "execute_chain" =>
        \A p \in Providers :
           LET calls == AttemptsOn(last'.attempts, p, {"failed", "success"})
               refused == AttemptsOn(last'.attempts, p, {"blocked"})
               successes == AttemptsOn(last'.attempts, p, {"success"})
               requests == metrics'[p].total_requests - metrics[p].total_requests
           IN /\ calls <= requests /\ requests <= calls + refused
              /\ metrics'[p].total_requests
                    = metrics'[p].successful_requests + metrics'[p].failed_requests
              /\ metrics'[p].successful_requests
                    = metrics[p].successful_requests + successes
              /\ successes = 0 =>
                    /\ metrics'[p].total_cost_usd = metrics[p].total_cost_usd
                    /\ metrics'[p].total_tokens_processed
                          = metrics[p].total_tokens_processed

\* C36: each attempt against a provider changes that provider's metrics by
\* exactly one request: total_requests equals the number of attempts made
\* against the provider, total_requests = successful_requests +
\* failed_requests, success_rate = successful_requests / total_requests, and
\* total_cost_usd and the token totals grow only on successful attempts.
C36_OneRequestPerAttempt == [][C36_MetricsStep]_vars

\* the keys a call took out of tier 1 while their entries had not expired
Evicted == {k \in KeysOf(l1_cache) \ KeysOf(l1_cache') :
               now <= l1_cache[IndexOfKey(l1_cache, k)][2].expires_at}

\* only a set of a key that is not held, on a full cache, evicts, and it
\* evicts the least recently used key; a get evicts nothing
C37_EvictionStep ==
    /\ last'.op = "set" =>
          /\ Evicted # {} =>
                /\ last'.text \notin KeysOf(l1_cache)
                /\ Len(l1_cache) >= MemoryMaxSize
                /\ Evicted = {Head(last.used)}
          /\ last'.text \in KeysOf(l1_cache')
    /\ last'.op = "get" => Evicted = {}

\* C37: tier 1 evicts by LRU: an entry is evicted only when a key not
\* already present is inserted into a full tier 1, and the evicted entry is
\* the least recently used one, where both a successful get and a set
\* (overwriting a key already present included) count as a use of that key.
C37_EvictsLeastRecentlyUsed == [][C37_EvictionStep]_vars

\* C39: in every reachable state the number of entries held in tier 1 is at
\* most max_size (max_size >= 1), after any sequence of get, set, store,
\* lookup-with-promotion and clear operations.
C39_Tier1WithinMaxSize ==
    /\ MemoryMaxSize >= 1
    /\ Len(l1_cache) <= MemoryMaxSize
    /\ Cardinality(KeysOf(l1_cache)) = Len(l1_cache)

\* a set has just been made on a full cache of a key that was not held: a
\* key was evicted, and the cache is full again, the new key in its last
\* place
C39_Witness ==
    /\ last.op = "set"
    /\ last.evicted # {} /\ last.text \notin last.evicted
    /\ Len(l1_cache) = MemoryMaxSize
    /\ l1_cache[Len(l1_cache)][1] = last.text

\* the request_count of the scope in the window of time t
EffCount(usage, key, t) ==
    IF key \in DOMAIN usage /\ usage[key].period_start = get_period_start(t)
    THEN usage[key].request_count ELSE 0

\* C38: no debit is lost under concurrency: for any interleaving of
\* concurrent calls, within one window the used_usd of each (level,
\* entity_id) equals the sum of the actual costs passed to the record_usage
\* calls that completed for requests naming that scope, and its
\* request_count equals the number of those calls.
C38_NoLostDebit ==
    \A key \in BudgetKeys :
       /\ EffUsed(budget_usage, key, now) = last.ledger[key].sum
       /\ EffCount(budget_usage, key, now) = last.ledger[key].count

\* a record_usage has completed while a call made before it, naming the same
\* user with another cost, is still in flight: the user holds the debit of
\* the completed call alone
C38_Witness ==
    /\ last.op = "run_record_usage" /\ last.actual_cost = 1
    /\ \E call \in last.inflight :
          /\ call.id = 1 /\ call.actual_cost = 0
          /\ call.request.user_id = last.request.user_id
    /\ last.ledger[<<"user", last.request.user_id>>] = [sum |-> 1, count |-> 1]
    /\ budget_usage[<<"user", last.request.user_id>>].used_usd = 1
    /\ budget_usage[<<"user", last.request.user_id>>].request_count = 1

\* C40: in every reachable state of a CircuitBreaker: if the state is closed
\* then failure_count < failure_threshold and can_execute returns true; if
\* the state is open or half-open then failure_count >= failure_threshold
\* and last_failure_time is set.
C40_BreakerStateInvariant ==
    \A p \in Providers :
       LET b == circuit_breakers[p]
       IN /\ b.state \in {"closed", "open", "half-open"}
          /\ b.state = "closed" =>
                /\ b.failure_count < failure_threshold(p)
                /\ can_execute(b, p, now).ok
          /\ b.state \in {"open", "half-open"} =>
                /\ b.failure_count >= failure_threshold(p)
                /\ b.last_failure_time # -1

\* the probe of a half-open breaker has failed and opened it again, while
\* another breaker is closed one failure below its threshold
C40_Witness ==
    /\ last.op = "record_failure" /\ last.was = "half-open"
    /\ BreakerOf(circuit_breakers, last).state = "open"
    /\ BreakerOf(circuit_breakers, last).failure_count
          > failure_threshold(last.provider)
    /\ \E p \in Providers :
          /\ circuit_breakers[p].state = "closed"
          /\ circuit_breakers[p].failure_count = failure_threshold(p) - 1

====
